---- MODULE Spec2Model ----
(***************************************************************************)
(* A model of the fetch-fallback orchestration of web_search_sdk:          *)
(*   - the per-source top-words orchestrators (Google, Google cascade,     *)
(*     DuckDuckGo, Wikipedia, Google News),                                *)
(*   - the retry/backoff fetchers (fetch_text and the per-source           *)
(*     _fetch_html / _fetch_rss loops),                                    *)
(*   - the browser renderer (browser.fetch_html, Selenium and Playwright), *)
(*   - the fan-out runner (base.gather_scrapers).                          *)
(*                                                                         *)
(* Spec       : one call of an orchestrator, a fetcher or the renderer,    *)
(*              with every outcome of the network and of the browser.      *)
(* SpecGather : one call of gather_scrapers, with every interleaving of    *)
(*              its tasks.                                                 *)
(***************************************************************************)
EXTENDS Integers, Sequences, FiniteSets, TLC

(***************************************************************************)
(* Bounds of the model                                                     *)
(***************************************************************************)
\* largest ctx.retries / retries argument explored
MaxRetries == 3
\* largest number of terms handed to gather_scrapers
MaxTerms == 3
\* largest parallelism handed to gather_scrapers
MaxParallelism == 2
\* the longest text handed to a parser, in words
MaxLen == 3
\* the largest top_n handed to a parser
MaxTopN == 3

(***************************************************************************)
(* Program constants                                                       *)
(***************************************************************************)
\* ScraperContext.retries default
DefaultRetries == 2
\* google_web.DEFAULT_TOP_N
DEFAULT_TOP_N == 20
\* wikipedia.DEFAULT_TOP_N
WIKI_DEFAULT_TOP_N == 100

VARIABLES
    \* ---- the call and its ScraperContext (Spec) ----
    call,          \* the function called by the top-level caller
    ctxGiven,      \* FALSE: the caller passed ctx=None
    use_browser,   \* ctx.use_browser (of the effective context)
    browser_type,  \* ctx.browser_type
    retries,       \* ctx.retries / the retries argument
    selAvailable,  \* browser._SEL_AVAILABLE
    pwAvailable,   \* browser._PW_AVAILABLE
    userAgents,    \* ctx.user_agents / the user_agents argument; {} is None
    ctxHeaders,    \* ctx.headers / the headers argument: the caller's dict
    pc,            \* position of the orchestrator
    calls,         \* the stages started so far, in order
    outs,          \* the outcome of every finished stage, in order
    warned,        \* a RuntimeWarning was emitted
    result,        \* what the call handed to its caller
    \* ---- retry/backoff fetcher ----
    hstate,        \* "idle" | "request" | "sleep" | "done"
    attempt,       \* the loop variable of range(retries + 1)
    httpLog,       \* the outcome of every attempt issued
    sleeps,        \* the delays slept, in tenths of a second
    hres,          \* what the fetcher handed to its caller
    reqHeaders,    \* the fetcher's own headers dict
    sentUA,        \* the User-Agent carried by every attempt issued
    \* ---- browser renderer ----
    rtype,         \* browser_type of the context handed to fetch_html
    bpc,           \* "idle" | "launch" | "navigate" | "wait" | "extract" | "close" | "done"
    backend,       \* "none" | "selenium" | "playwright"
    handle,        \* "none" | "open" | "closed"
    pending,       \* the exception in flight through Selenium's finally block
    page,          \* the page source extracted
    brLog,         \* the renderer's steps, in order
    bres,          \* what the renderer handed to its caller
    \* ---- fan-out runner (SpecGather) ----
    terms,         \* the terms argument
    parallelism,   \* the parallelism argument
    gpc,           \* "idle" | "pending" | "returned" | "raised"
    semValue,      \* asyncio.Semaphore._value
    waiters,       \* asyncio.Semaphore._waiters, FIFO
    tpc,           \* per task: "created" | "waiting" | "fetching" | "done" | "failed"
    tres,          \* per task: its result
    texc,          \* per task: its exception
    tlog,          \* per task: its steps, in order
    notified,      \* the tasks whose done-callback has run, in order
    doneOrder,     \* the tasks in order of completion
    gResult,       \* the list gather handed to the caller
    gExc,          \* the exception gather raised to the caller
    \* ---- token-list parsers (SpecParse) ----
    pfn,           \* the parser applied
    ptext,         \* its text/HTML argument
    ptop,          \* its top_n argument
    ppc,           \* "idle" | "ready" | "done"
    pout,          \* the token list it returned
    \* ---- utils.output.to_json (SpecJson) ----
    jfile,         \* the text of the file, as JSON tokens; <<>> when absent
    jlog,          \* the to_json calls made, in order
    \* ---- utils.http.rate_limited (SpecRate) ----
    rcalls,        \* the calls argument of the decorator
    rperiod,       \* the period argument of the decorator
    now,           \* time.monotonic()
    bucket,        \* the closure's bucket
    reset_at,      \* the closure's reset_at
    rlock,         \* the caller holding the asyncio.Lock, 0 when free
    rpc,           \* per caller: "idle" | "sleeping" | "started"
    rstarts        \* the started invocations of the wrapped function: when, and after a sleep or not

ctxVars == <<call, ctxGiven, use_browser, browser_type, retries, selAvailable, pwAvailable,
             userAgents>>
orchVars == <<pc, calls, outs, warned, result>>
httpVars == <<hstate, attempt, httpLog, sleeps, hres, reqHeaders, sentUA>>
browserVars == <<rtype, bpc, backend, handle, pending, page, brLog, bres>>
gatherVars == <<terms, parallelism, gpc, semValue, waiters, tpc, tres, texc, tlog,
                notified, doneOrder, gResult, gExc>>
parseVars == <<pfn, ptext, ptop, ppc, pout>>
utilVars == <<jfile, jlog, rcalls, rperiod, now, bucket, reset_at, rlock, rpc, rstarts>>
vars == <<ctxVars, orchVars, httpVars, browserVars, gatherVars, parseVars, utilVars,
          ctxHeaders>>

(***************************************************************************)
(* Values                                                                  *)
(***************************************************************************)
\* An HTML/RSS body is the sequence of the words of its text; the word
\* CaptchaMarker stands for the block-page marker ("captcha-form",
\* "detected unusual traffic"), which is markup, not text.
CaptchaMarker == "captcha-form"
STOPWORDS == {"the"}
Bodies == {<<>>, <<"btc">>, <<"the">>, <<"btc", "the", "btc">>, <<CaptchaMarker>>,
           <<CaptchaMarker, "btc", "btc">>}
NoWords == <<>>
NoHtml == <<>>

\* An exception is <<its kind, the 0-based attempt that raised it>>.
NoExc == <<"none", 0>>
NoResult == [kind |-> "none", words |-> NoWords, html |-> NoHtml, exc |-> NoExc]
ReturnWords(w) == [kind |-> "return", words |-> w, html |-> NoHtml, exc |-> NoExc]
ReturnHtml(h) == [kind |-> "return", words |-> NoWords, html |-> h, exc |-> NoExc]
Raise(e) == [kind |-> "raise", words |-> NoWords, html |-> NoHtml, exc |-> e]

Calls == {"google_web_top_words", "fetch_serp_html", "google_web_top_words_cascade",
          "duckduckgo_top_words", "wikipedia_top_words", "google_news_top_words",
          "fetch_html", "fetch_text", "article_fetch_html", "extract_article_content",
          "fetch_bloomberg", "fetch_cnbc"}
BrowserTypes == {"selenium", "playwright", "playwright_stealth"}

(***************************************************************************)
(* Token extraction (pure functions)                                       *)
(***************************************************************************)
Min(a, b) == IF a < b THEN a ELSE b

\* _looks_like_captcha: substring match on the body
LooksLikeCaptcha(html) == \E i \in DOMAIN html : html[i] = CaptchaMarker

IsWord(w) == w # CaptchaMarker
\* Tokenise by text.split(" "): the empty text yields one empty token
TokeniseBySplit(html) ==
    LET ws == SelectSeq(html, IsWord)
    IN  IF html = <<>> THEN << <<"">> >> ELSE [i \in 1..Len(ws) |-> <<ws[i]>>]

\* _tokenise: the words of the text, in text order (markup yields none); a
\* token is the sequence of its words, so that "a b" is <<"a", "b">>
Tokenise(html) ==
    LET ws == SelectSeq(html, IsWord)
    IN  [i \in 1..Len(ws) |-> <<ws[i]>>]

\* t not in _STOPWORDS: the stop list holds single words only
NotStopword(t) == ~(Len(t) = 1 /\ t[1] \in STOPWORDS)
DropStopwords(toks) == SelectSeq(toks, NotStopword)

CountOf(toks, w) == Cardinality({i \in DOMAIN toks : toks[i] = w})
FirstAt(toks, w) == CHOOSE i \in DOMAIN toks : toks[i] = w /\ \A j \in 1..(i - 1) : toks[j] # w
\* rank of w in Counter(toks).most_common(): count descending, ties by first occurrence
RankOf(toks, w) ==
    1 + Cardinality({i \in DOMAIN toks :
                       /\ FirstAt(toks, toks[i]) = i
                       /\ \/ CountOf(toks, toks[i]) > CountOf(toks, w)
                          \/ /\ CountOf(toks, toks[i]) = CountOf(toks, w)
                             /\ i < FirstAt(toks, w)})
\* [tok for tok, _ in Counter(toks).most_common(top_n)]
MostCommon(toks, top_n) ==
    LET distinct == {toks[i] : i \in DOMAIN toks}
        n == Min(top_n, Cardinality(distinct))
    IN  [k \in 1..n |-> CHOOSE w \in distinct : RankOf(toks, w) = k]

\* TokeniseAndBigrams with the two words of a bigram swapped
TokeniseAndBigramsSwapped(html) ==
    LET toks == Tokenise(html)
    IN  toks \o (IF Len(toks) < 2 THEN <<>>
                 ELSE [i \in 1..(Len(toks) - 1) |-> toks[i + 1] \o toks[i]])

\* _tokenise_and_bigrams: toks + [f"{a} {b}" for a, b in zip(toks, toks[1:])]
TokeniseAndBigrams(html) ==
    LET toks == Tokenise(html)
    IN  toks \o (IF Len(toks) < 2 THEN <<>>
                 ELSE [i \in 1..(Len(toks) - 1) |-> toks[i] \o toks[i + 1]])

\* a _parse_html without the block-page test
GoogleParseHtmlNoCaptchaCheck(html, top_n) ==
    MostCommon(DropStopwords(TokeniseAndBigrams(html)), top_n)

\* google_web._parse_html: a block page yields no token; otherwise the most
\* common words and bigrams outside the stop list
GoogleParseHtml(html, top_n) ==
    IF LooksLikeCaptcha(html) THEN NoWords
    ELSE MostCommon(DropStopwords(TokeniseAndBigrams(html)), top_n)

\* Counter(tokens).most_common(): every distinct token, ranked
MostCommonAll(toks) == MostCommon(toks, Len(toks))

\* duckduckgo_web._parse_html, the loop over counter.most_common(): append
\* the token unless already present, break when len(top_tokens) == top_n
RECURSIVE TopTokensLoop(_, _, _, _)
TopTokensLoop(ranked, i, top_tokens, top_n) ==
    IF i > Len(ranked) THEN top_tokens
    ELSE LET appended == IF \E k \in DOMAIN top_tokens : top_tokens[k] = ranked[i]
                         THEN top_tokens
                         ELSE Append(top_tokens, ranked[i])
         IN  IF Len(appended) = top_n THEN appended
             ELSE TopTokensLoop(ranked, i + 1, appended, top_n)

\* duckduckgo_web._parse_html
DuckDuckGoParseHtml(html, top_n) ==
    TopTokensLoop(MostCommonAll(DropStopwords(TokeniseAndBigrams(html))), 1, <<>>, top_n)

\* utils.text.most_common(tokenise(text), n): stop-word removal, no fallback
TextMostCommon(text, n) == MostCommon(DropStopwords(Tokenise(text)), n)

\* FallbackParse without the fallback to the unfiltered tokens
FallbackParseNoFallback(html, top_n) ==
    MostCommon(DropStopwords(Tokenise(html)), top_n)

\* wikipedia._parse_html / news._parse_rss: unfiltered tokens when the stop
\* list removes everything
FallbackParse(html, top_n) ==
    LET tokens == Tokenise(html)
        filtered == DropStopwords(tokens)
    IN  MostCommon(IF filtered = <<>> THEN tokens ELSE filtered, top_n)

(***************************************************************************)
(* Retry/backoff fetcher                                                   *)
(***************************************************************************)
\* the factor of the sleep, in tenths of a second: 0.3 for the Google and
\* DuckDuckGo fetchers, 0.5 for Wikipedia, Google News and fetch_text
BaseDelay(c) ==
    IF c \in {"google_web_top_words_cascade", "duckduckgo_top_words", "search_and_parse"}
    THEN 3 ELSE 5

\* a fetcher that sleeps the same delay after every failed attempt
BackoffConstant(c, a) == BaseDelay(c)

\* the delay slept after failed attempt a: fetch_text backs off
\* exponentially (0.5 * 2**attempt), the per-source fetchers linearly
Backoff(c, a) ==
    IF c = "fetch_text" THEN BaseDelay(c) * 2^a ELSE BaseDelay(c) * (a + 1)

FailureKinds == {"status", "transport"}

\* A headers dict is the set of its <<name, value>> items.
HasKey(h, k) == \E item \in h : item[1] = k
\* h.get(k)
Get(h, k) == IF HasKey(h, k) THEN (CHOOSE item \in h : item[1] = k)[2] ELSE "absent"
\* h.setdefault(k, v)
SetDefault(h, k, v) == IF HasKey(h, k) THEN h ELSE h \cup {<<k, v>>}
\* h[k] = v
Put(h, k, v) == {item \in h : item[1] # k} \cup {<<k, v>>}

\* utils.http._DEFAULT_UA
DEFAULT_UA == {"ua_chrome", "ua_safari"}
\* a caller's user_agents list, and the headers a caller puts in its dict
CustomPool == {"ua_custom"}
HeaderArgs == {{}, {<<"User-Agent", "ua_caller">>},
               {<<"User-Agent", "ua_caller">>, <<"Accept-Language", "fr">>}}

\* the pool in effect: the user_agents given, else the default pool
PoolInEffect(pool) == IF pool = {} THEN DEFAULT_UA ELSE pool

\* fetch_text whose random User-Agent replaces the caller's
FetchTextHeadersOverride(h, ua) == Put(h, "User-Agent", ua)

\* fetch_text: headers.setdefault("User-Agent", random.choice(user_agents))
FetchTextHeaders(h, ua) == SetDefault(h, "User-Agent", ua)

\* google_web / duckduckgo_web _fetch_html: three setdefault calls
SerpHeaders(h, ua) ==
    SetDefault(SetDefault(SetDefault(h, "User-Agent", ua),
                          "Accept-Language", "en-US"), "Accept", "text/html")

\* wikipedia._fetch_html / news._fetch_rss: `if ua: headers["User-Agent"] = ua`
\* with ua = ctx.choose_ua(), which is None without a pool
PoolHeaders(h, pool, ua) == IF pool = {} THEN h ELSE Put(h, "User-Agent", ua)

\* news_legacy.top_words_sync: hdrs = headers.copy(), two setdefault calls
NewsLegacyHeaders(h, ua) ==
    SetDefault(SetDefault(h, "User-Agent", ua), "Accept-Language", "en-US")

\* the headers dict a fetcher builds for its requests
FetcherHeaders(c, h, pool, ua) ==
    IF c = "fetch_text" THEN FetchTextHeaders(h, ua)
    ELSE IF c \in {"wikipedia_top_words", "google_news_top_words"} THEN PoolHeaders(h, pool, ua)
    ELSE SerpHeaders(h, ua)

\* a fetcher that merges into the caller's dict itself
CallerDictMergedInPlace(own, merged) == merged

\* `headers = ctx.headers.copy()`: the merge fills a copy, the caller's
\* dict keeps its items
CallerDictAfterMerge(own, merged) == own

\* the fetcher is entered with the caller's dict h: the header merge, then
\* the first pass of `for attempt in range(retries + 1)`
HttpEnterFrom(h) ==
    /\ \E ua \in PoolInEffect(userAgents) :
          /\ reqHeaders' = FetcherHeaders(call, h, userAgents, ua)
          /\ ctxHeaders' = CallerDictAfterMerge(h, reqHeaders')
    /\ hstate' = "request"
    /\ attempt' = 0
    /\ sentUA' = <<>>
    /\ UNCHANGED <<httpLog, sleeps, hres>>

HttpEnter == HttpEnterFrom(ctxHeaders)

\* a fetcher whose loop gives up one attempt early
HttpAttemptGivesUpEarly ==
    /\ hstate = "request"
    /\ \/ \E body \in Bodies :
            /\ httpLog' = Append(httpLog, [kind |-> "ok", body |-> body])
            /\ hres' = ReturnHtml(body)
            /\ hstate' = "done"
            /\ UNCHANGED sleeps
       \/ \E k \in FailureKinds :
            /\ httpLog' = Append(httpLog, [kind |-> k, body |-> NoHtml])
            /\ IF attempt + 1 >= retries
               THEN /\ hres' = Raise(<<k, attempt>>)
                    /\ hstate' = "done"
                    /\ UNCHANGED sleeps
               ELSE /\ sleeps' = Append(sleeps, Backoff(call, attempt))
                    /\ hstate' = "sleep"
                    /\ UNCHANGED hres
    /\ sentUA' = Append(sentUA, Get(reqHeaders, "User-Agent"))
    /\ UNCHANGED <<attempt, reqHeaders, ctxVars, orchVars, browserVars, gatherVars, utilVars, parseVars,
                   ctxHeaders>>

\* one attempt: client.get + raise_for_status, and the except clause
HttpAttempt ==
    /\ hstate = "request"
    /\ \/ \E body \in Bodies :
            /\ httpLog' = Append(httpLog, [kind |-> "ok", body |-> body])
            /\ hres' = ReturnHtml(body)
            /\ hstate' = "done"
            /\ UNCHANGED sleeps
       \/ \E k \in FailureKinds :
            /\ httpLog' = Append(httpLog, [kind |-> k, body |-> NoHtml])
            /\ IF attempt >= retries
               THEN /\ hres' = Raise(<<k, attempt>>)
                    /\ hstate' = "done"
                    /\ UNCHANGED sleeps
               ELSE /\ sleeps' = Append(sleeps, Backoff(call, attempt))
                    /\ hstate' = "sleep"
                    /\ UNCHANGED hres
    /\ sentUA' = Append(sentUA, Get(reqHeaders, "User-Agent"))
    /\ UNCHANGED <<attempt, reqHeaders, ctxVars, orchVars, browserVars, gatherVars, utilVars, parseVars,
                   ctxHeaders>>

\* asyncio.sleep returns: the next pass of the loop
HttpSleepDone ==
    /\ hstate = "sleep"
    /\ attempt' = attempt + 1
    /\ hstate' = "request"
    /\ UNCHANGED <<httpLog, sleeps, hres, reqHeaders, sentUA, ctxVars, orchVars, browserVars,
                   gatherVars, utilVars, parseVars, ctxHeaders>>

(***************************************************************************)
(* Browser renderer: browser.fetch_html and browser._fetch_sync            *)
(***************************************************************************)
BrowserStep(ev) == brLog' = Append(brLog, ev)

\* fetch_html is entered with a context whose browser_type is bt; every
\* call starts a fresh browser session
BrowserEnter(bt) ==
    /\ rtype' = bt
    /\ bpc' = "select"
    /\ backend' = "none"
    /\ handle' = "none"
    /\ pending' = NoExc
    /\ page' = NoHtml
    /\ brLog' = <<>>
    /\ bres' = NoResult

\* the renderer hands html to its caller
BrowserReturn(html) ==
    /\ bres' = ReturnHtml(html)
    /\ bpc' = "done"

\* BrowserSelect with a switch to Selenium when Playwright is not importable
BrowserSelectFallsBack ==
    /\ bpc = "select"
    /\ IF rtype \in {"playwright", "playwright_stealth"} /\ pwAvailable
       THEN /\ backend' = "playwright"
            /\ bpc' = "launch"
            /\ UNCHANGED bres
       ELSE /\ backend' = "selenium"
            /\ IF selAvailable
               THEN /\ bpc' = "launch"
                    /\ UNCHANGED bres
               ELSE BrowserReturn(NoHtml)
    /\ BrowserStep("select")
    /\ UNCHANGED <<rtype, handle, pending, page, ctxVars, orchVars, httpVars, gatherVars, utilVars, parseVars, ctxHeaders>>

\* the backend is chosen from ctx.browser_type; an unavailable backend
\* returns "" at once
BrowserSelect ==
    /\ bpc = "select"
    /\ IF rtype \in {"playwright", "playwright_stealth"}
       THEN /\ backend' = "playwright"
            /\ IF pwAvailable
               THEN /\ bpc' = "launch"
                    /\ UNCHANGED bres
               ELSE BrowserReturn(NoHtml)
       ELSE /\ backend' = "selenium"
            /\ IF selAvailable
               THEN /\ bpc' = "launch"
                    /\ UNCHANGED bres
               ELSE BrowserReturn(NoHtml)
    /\ BrowserStep("select")
    /\ UNCHANGED <<rtype, handle, pending, page, ctxVars, orchVars, httpVars, gatherVars, utilVars, parseVars, ctxHeaders>>

\* webdriver.Firefox(...) / p.<engine>.launch + browser.new_page: a failed
\* launch is caught by both backends and yields ""
BrowserLaunch ==
    /\ bpc = "launch"
    /\ \/ /\ handle' = "open"
          /\ bpc' = "navigate"
          /\ BrowserStep("launch")
          /\ UNCHANGED bres
       \/ /\ BrowserReturn(NoHtml)
          /\ BrowserStep("launch_failed")
          /\ UNCHANGED handle
       \/ /\ backend = "playwright"
          /\ handle' = "closed"
          /\ BrowserReturn(NoHtml)
          /\ brLog' = brLog \o <<"launch", "new_page_failed", "stop">>
    /\ UNCHANGED <<rtype, backend, pending, page, ctxVars, orchVars, httpVars, gatherVars, utilVars, parseVars, ctxHeaders>>

\* BrowserNavigate with a body wait after page.goto as well
BrowserNavigateAlwaysWaits ==
    /\ bpc = "navigate"
    /\ \/ /\ bpc' = "wait"
          /\ BrowserStep("navigate")
          /\ UNCHANGED <<handle, pending, bres>>
       \/ /\ backend = "selenium"
          /\ pending' = <<"navigate", 0>>
          /\ bpc' = "close"
          /\ BrowserStep("navigate_failed")
          /\ UNCHANGED <<handle, bres>>
       \/ /\ backend = "playwright"
          /\ handle' = "closed"
          /\ BrowserReturn(NoHtml)
          /\ brLog' = brLog \o <<"navigate_failed", "stop">>
          /\ UNCHANGED pending
    /\ UNCHANGED <<rtype, backend, page, ctxVars, orchVars, httpVars, gatherVars, utilVars, parseVars, ctxHeaders>>

\* driver.get(url) / page.goto(url). Selenium: the exception leaves through
\* the finally block. Playwright: the exception leaves the async-with block
\* (which stops Playwright and with it the browser) and is caught.
BrowserNavigate ==
    /\ bpc = "navigate"
    /\ \/ /\ bpc' = IF backend = "selenium" THEN "wait" ELSE "extract"
          /\ BrowserStep("navigate")
          /\ UNCHANGED <<handle, pending, bres>>
       \/ /\ backend = "selenium"
          /\ pending' = <<"navigate", 0>>
          /\ bpc' = "close"
          /\ BrowserStep("navigate_failed")
          /\ UNCHANGED <<handle, bres>>
       \/ /\ backend = "playwright"
          /\ handle' = "closed"
          /\ BrowserReturn(NoHtml)
          /\ brLog' = brLog \o <<"navigate_failed", "stop">>
          /\ UNCHANGED pending
    /\ UNCHANGED <<rtype, backend, page, ctxVars, orchVars, httpVars, gatherVars, utilVars, parseVars, ctxHeaders>>

\* Selenium only: WebDriverWait(...).until(body present); a failed wait is
\* swallowed
BrowserWait ==
    /\ bpc = "wait"
    /\ \E ok \in BOOLEAN : BrowserStep(IF ok THEN "wait" ELSE "wait_failed")
    /\ bpc' = "extract"
    /\ UNCHANGED <<rtype, backend, handle, pending, page, bres,
                   ctxVars, orchVars, httpVars, gatherVars, utilVars, parseVars, ctxHeaders>>

\* BrowserExtract without the finally block around driver.page_source
BrowserExtractNoFinally ==
    /\ bpc = "extract"
    /\ \/ \E html \in Bodies :
            /\ page' = html
            /\ bpc' = "close"
            /\ BrowserStep("extract")
            /\ UNCHANGED <<handle, pending, bres>>
       \/ /\ backend = "selenium"
          /\ pending' = <<"extract", 0>>
          /\ bres' = Raise(<<"extract", 0>>)
          /\ bpc' = "done"
          /\ BrowserStep("extract_failed")
          /\ UNCHANGED <<handle, page>>
       \/ /\ backend = "playwright"
          /\ handle' = "closed"
          /\ BrowserReturn(NoHtml)
          /\ brLog' = brLog \o <<"extract_failed", "stop">>
          /\ UNCHANGED <<pending, page>>
    /\ UNCHANGED <<rtype, backend, ctxVars, orchVars, httpVars, gatherVars, utilVars, parseVars, ctxHeaders>>

\* driver.page_source / page.content()
BrowserExtract ==
    /\ bpc = "extract"
    /\ \/ \E html \in Bodies :
            /\ page' = html
            /\ bpc' = "close"
            /\ BrowserStep("extract")
            /\ UNCHANGED <<handle, pending, bres>>
       \/ /\ backend = "selenium"
          /\ pending' = <<"extract", 0>>
          /\ bpc' = "close"
          /\ BrowserStep("extract_failed")
          /\ UNCHANGED <<handle, page, bres>>
       \/ /\ backend = "playwright"
          /\ handle' = "closed"
          /\ BrowserReturn(NoHtml)
          /\ brLog' = brLog \o <<"extract_failed", "stop">>
          /\ UNCHANGED <<pending, page>>
    /\ UNCHANGED <<rtype, backend, ctxVars, orchVars, httpVars, gatherVars, utilVars, parseVars, ctxHeaders>>

\* Selenium: the finally block, driver.quit() with its exception swallowed,
\* then the return or the exception in flight. Playwright: browser.close(),
\* the return, and the exit of the async-with block.
BrowserClose ==
    /\ bpc = "close"
    /\ \/ /\ handle' = "closed"
          /\ brLog' = brLog \o (IF backend = "playwright" THEN <<"close", "stop">>
                                                          ELSE <<"close">>)
          /\ IF pending # NoExc
             THEN /\ bres' = Raise(pending)
                  /\ bpc' = "done"
             ELSE BrowserReturn(page)
       \/ /\ backend = "selenium"
          /\ BrowserStep("close_failed")
          /\ UNCHANGED handle
          /\ IF pending # NoExc
             THEN /\ bres' = Raise(pending)
                  /\ bpc' = "done"
             ELSE BrowserReturn(page)
       \/ /\ backend = "playwright"
          /\ handle' = "closed"
          /\ brLog' = brLog \o <<"close_failed", "stop">>
          /\ BrowserReturn(NoHtml)
    /\ UNCHANGED <<rtype, backend, pending, page, ctxVars, orchVars, httpVars, gatherVars, utilVars, parseVars, ctxHeaders>>

BrowserNext ==
    \/ BrowserSelect
    \/ BrowserLaunch
    \/ BrowserNavigate
    \/ BrowserWait
    \/ BrowserExtract
    \/ BrowserClose

(***************************************************************************)
(* Legacy blocking scrapers (top_words_sync), run by run_in_thread         *)
(***************************************************************************)
Responses == {[kind |-> "ok", body |-> b] : b \in Bodies}
             \cup {[kind |-> k, body |-> NoHtml] : k \in FailureKinds}

\* google_web_legacy.top_words_sync: requests.get + raise_for_status are
\* not guarded
GoogleLegacySync(resp, top_n) ==
    IF resp.kind # "ok" THEN Raise(<<resp.kind, 0>>)
    ELSE ReturnWords(MostCommon(DropStopwords(TokeniseAndBigrams(resp.body)), top_n))

\* wikipedia_legacy.top_words_sync: raises without newspaper3k and when the
\* download failed
WikipediaLegacySync(resp, top_n) ==
    IF resp.kind # "ok" THEN Raise(<<resp.kind, 0>>)
    ELSE ReturnWords(MostCommon(DropStopwords(Tokenise(resp.body)), top_n))

\* news_legacy.top_words_sync: the RSS feed, then the HTML page; both guarded
NewsLegacySync(rss, htm, top_n) ==
    LET rssWords == IF rss.kind = "ok"
                    THEN MostCommon(DropStopwords(Tokenise(rss.body)), top_n)
                    ELSE NoWords
    IN  IF rssWords # NoWords THEN ReturnWords(rssWords)
        ELSE IF htm.kind # "ok" THEN ReturnWords(NoWords)
        ELSE ReturnWords(MostCommon(DropStopwords(Tokenise(htm.body)), top_n))

(***************************************************************************)
(* Orchestrators                                                           *)
(***************************************************************************)
StartStage(s) ==
    /\ calls' = Append(calls, s)
    /\ pc' = s

\* how a finished stage is recorded
OutcomeOf(r) ==
    IF r.kind = "raise" THEN "raise" ELSE IF r.words # NoWords THEN "words" ELSE "empty"

Finish(r) ==
    /\ result' = r
    /\ pc' = "done"

\* ---- web_search_sdk/scrapers/google_web.py -----------------------------

\* a fetch_serp_html that tries plain HTTP when no browser is requested
GoogleFetchSerpHtmlHttpFirst ==
    /\ call \in {"google_web_top_words", "fetch_serp_html"}
    /\ pc = "start"
    /\ IF ~use_browser
       THEN /\ StartStage("http")
            /\ HttpEnter
            /\ UNCHANGED <<outs, warned, result, browserVars>>
       ELSE /\ StartStage("browser")
            /\ BrowserEnter(browser_type)
            /\ UNCHANGED <<outs, warned, result, httpVars, ctxHeaders>>
    /\ UNCHANGED <<ctxVars, gatherVars, utilVars, parseVars>>

\* fetch_serp_html up to its first await: without ctx.use_browser it warns
\* and returns ""; google_web_top_words then returns []
GoogleFetchSerpHtml ==
    /\ call \in {"google_web_top_words", "fetch_serp_html"}
    /\ pc = "start"
    /\ IF ~use_browser
       THEN /\ warned' = TRUE
            /\ Finish(IF call = "fetch_serp_html" THEN ReturnHtml(NoHtml)
                                                  ELSE ReturnWords(NoWords))
            /\ UNCHANGED <<calls, outs, browserVars>>
       ELSE /\ StartStage("browser")
            /\ BrowserEnter(browser_type)
            /\ UNCHANGED <<outs, warned, result>>
    /\ UNCHANGED <<ctxVars, httpVars, gatherVars, utilVars, parseVars, ctxHeaders>>

\* what fetch_serp_html returns once the renderer is back: its html, or ""
SerpHtmlOf(r) == IF r.kind = "raise" THEN r ELSE ReturnHtml(r.html)

\* google_web_top_words after fetch_serp_html: [] without html, else the parse
GoogleTopWordsOf(serp) ==
    IF serp.kind = "raise" THEN serp
    ELSE IF serp.html = NoHtml THEN ReturnWords(NoWords)
    ELSE ReturnWords(GoogleParseHtml(serp.html, DEFAULT_TOP_N))

\* a fetch_serp_html that falls back to plain HTTP when the renderer
\* returned nothing
GoogleBrowserDoneHttpFallback ==
    /\ call \in {"google_web_top_words", "fetch_serp_html"}
    /\ pc = "browser"
    /\ bpc = "done"
    /\ outs' = Append(outs, OutcomeOf(GoogleTopWordsOf(SerpHtmlOf(bres))))
    /\ IF bres.kind = "return" /\ bres.html = NoHtml
       THEN /\ StartStage("http")
            /\ HttpEnter
            /\ UNCHANGED result
       ELSE /\ Finish(IF call = "fetch_serp_html" THEN SerpHtmlOf(bres)
                                                  ELSE GoogleTopWordsOf(SerpHtmlOf(bres)))
            /\ UNCHANGED <<calls, httpVars, ctxHeaders>>
    /\ UNCHANGED <<warned, ctxVars, browserVars, gatherVars, utilVars, parseVars>>

GoogleBrowserDone ==
    /\ call \in {"google_web_top_words", "fetch_serp_html"}
    /\ pc = "browser"
    /\ bpc = "done"
    /\ LET serp == SerpHtmlOf(bres)
           r == IF call = "fetch_serp_html" THEN serp ELSE GoogleTopWordsOf(serp)
       IN  /\ Finish(r)
           /\ outs' = Append(outs, OutcomeOf(GoogleTopWordsOf(serp)))
    /\ UNCHANGED <<calls, warned, ctxVars, httpVars, browserVars, gatherVars, utilVars, parseVars, ctxHeaders>>

\* ---- scrapers/google_web.py: HTTP -> legacy -> browser ------------------

CascadeStart ==
    /\ call = "google_web_top_words_cascade"
    /\ pc = "start"
    /\ StartStage("http")
    /\ HttpEnter
    /\ UNCHANGED <<outs, warned, result, ctxVars, browserVars, gatherVars, utilVars, parseVars>>

\* run_scraper(_fetch_html, _parse_html) inside try/except
CascadeHttpWords(r) ==
    IF r.kind = "raise" THEN r ELSE ReturnWords(GoogleParseHtml(r.html, DEFAULT_TOP_N))

CascadeHttpDone ==
    /\ call = "google_web_top_words_cascade"
    /\ pc = "http"
    /\ hstate = "done"
    /\ LET r == CascadeHttpWords(hres)
       IN  /\ outs' = Append(outs, OutcomeOf(r))
           /\ IF OutcomeOf(r) = "words"
              THEN /\ Finish(r)
                   /\ UNCHANGED calls
              ELSE /\ StartStage("legacy")
                   /\ UNCHANGED result
    /\ UNCHANGED <<warned, ctxVars, httpVars, browserVars, gatherVars, utilVars, parseVars, ctxHeaders>>

\* a cascade that launches the browser whatever ctx.use_browser says
CascadeLegacyDoneAlwaysBrowser ==
    /\ call = "google_web_top_words_cascade"
    /\ pc = "legacy"
    /\ \E resp \in Responses, ua \in DEFAULT_UA :
         LET r == GoogleLegacySync(resp, DEFAULT_TOP_N)
         IN  /\ outs' = Append(outs, OutcomeOf(r))
             /\ ctxHeaders' = CallerDictAfterMerge(ctxHeaders, SerpHeaders(ctxHeaders, ua))
             /\ IF OutcomeOf(r) = "words"
                THEN /\ Finish(r)
                     /\ UNCHANGED <<calls, browserVars>>
                ELSE /\ StartStage("browser")
                     /\ BrowserEnter(browser_type)
                     /\ UNCHANGED result
    /\ UNCHANGED <<warned, ctxVars, httpVars, gatherVars, utilVars, parseVars>>

\* run_in_thread(legacy_sync) inside try/except, then `if ctx.use_browser`
CascadeLegacyDone ==
    /\ call = "google_web_top_words_cascade"
    /\ pc = "legacy"
    /\ \E resp \in Responses, ua \in DEFAULT_UA :
         LET r == GoogleLegacySync(resp, DEFAULT_TOP_N)
         IN  /\ outs' = Append(outs, OutcomeOf(r))
             /\ ctxHeaders' = CallerDictAfterMerge(ctxHeaders, SerpHeaders(ctxHeaders, ua))
             /\ IF OutcomeOf(r) = "words"
                THEN /\ Finish(r)
                     /\ UNCHANGED <<calls, browserVars>>
                ELSE IF use_browser
                THEN /\ StartStage("browser")
                     /\ BrowserEnter(browser_type)
                     /\ UNCHANGED result
                ELSE /\ Finish(ReturnWords(NoWords))
                     /\ UNCHANGED <<calls, browserVars>>
    /\ UNCHANGED <<warned, ctxVars, httpVars, gatherVars, utilVars, parseVars>>

\* the browser stage is not guarded: `html = await _browser_fetch_html(...)`
CascadeBrowserWords(r) ==
    IF r.kind = "raise" THEN r
    ELSE IF r.html = NoHtml THEN ReturnWords(NoWords)
    ELSE ReturnWords(GoogleParseHtml(r.html, DEFAULT_TOP_N))

\* a cascade that goes back to plain HTTP once when the browser gave nothing
CascadeBrowserDoneRetriesHttp ==
    /\ call = "google_web_top_words_cascade"
    /\ pc = "browser"
    /\ bpc = "done"
    /\ outs' = Append(outs, OutcomeOf(CascadeBrowserWords(bres)))
    /\ IF OutcomeOf(CascadeBrowserWords(bres)) = "empty" /\ Len(calls) < 4
       THEN /\ StartStage("http")
            /\ HttpEnter
            /\ UNCHANGED result
       ELSE /\ Finish(CascadeBrowserWords(bres))
            /\ UNCHANGED <<calls, httpVars, ctxHeaders>>
    /\ UNCHANGED <<warned, ctxVars, browserVars, gatherVars, utilVars, parseVars>>

CascadeBrowserDone ==
    /\ call = "google_web_top_words_cascade"
    /\ pc = "browser"
    /\ bpc = "done"
    /\ outs' = Append(outs, OutcomeOf(CascadeBrowserWords(bres)))
    /\ Finish(CascadeBrowserWords(bres))
    /\ UNCHANGED <<calls, warned, ctxVars, httpVars, browserVars, gatherVars, utilVars, parseVars, ctxHeaders>>

\* ---- web_search_sdk/scrapers/duckduckgo_web.py --------------------------

DuckDuckGoStart ==
    /\ call = "duckduckgo_top_words"
    /\ pc = "start"
    /\ StartStage("http")
    /\ HttpEnter
    /\ UNCHANGED <<outs, warned, result, ctxVars, browserVars, gatherVars, utilVars, parseVars>>

\* run_scraper(term, _fetch_html, _parse_wrapper, ctx) with no try/except;
\* _parse_wrapper calls _parse_html(html, t, c, top_n), which takes
\* (html, top_n): a TypeError
DuckDuckGoWords(r) ==
    IF r.kind = "raise" THEN r ELSE Raise(<<"TypeError", 0>>)

DuckDuckGoHttpDone ==
    /\ call = "duckduckgo_top_words"
    /\ pc = "http"
    /\ hstate = "done"
    /\ outs' = Append(outs, OutcomeOf(DuckDuckGoWords(hres)))
    /\ Finish(DuckDuckGoWords(hres))
    /\ UNCHANGED <<calls, warned, ctxVars, httpVars, browserVars, gatherVars, utilVars, parseVars, ctxHeaders>>

\* ---- web_search_sdk/scrapers/wikipedia.py: legacy -> HTTP -> API --------

WikipediaStart ==
    /\ call = "wikipedia_top_words"
    /\ pc = "start"
    /\ StartStage("legacy")
    /\ UNCHANGED <<outs, warned, result, ctxVars, httpVars, browserVars, gatherVars, utilVars, parseVars, ctxHeaders>>

WikipediaLegacyDone ==
    /\ call = "wikipedia_top_words"
    /\ pc = "legacy"
    /\ \E resp \in Responses :
         LET r == WikipediaLegacySync(resp, WIKI_DEFAULT_TOP_N)
         IN  /\ outs' = Append(outs, OutcomeOf(r))
             /\ IF OutcomeOf(r) = "words"
                THEN /\ Finish(r)
                     /\ UNCHANGED <<calls, httpVars, ctxHeaders>>
                ELSE /\ StartStage("http")
                     /\ HttpEnter
                     /\ UNCHANGED result
    /\ UNCHANGED <<warned, ctxVars, browserVars, gatherVars, utilVars, parseVars>>

\* wikipedia._parse_html: [] without a content element (an empty body)
WikipediaParseHtml(html, top_n) ==
    IF html = NoHtml THEN NoWords ELSE FallbackParse(html, top_n)

WikipediaHttpWords(r) ==
    IF r.kind = "raise" THEN r ELSE ReturnWords(WikipediaParseHtml(r.html, WIKI_DEFAULT_TOP_N))

\* a wikipedia_top_words that queries the API whatever the HTTP stage gave
WikipediaHttpDoneAlwaysApi ==
    /\ call = "wikipedia_top_words"
    /\ pc = "http"
    /\ hstate = "done"
    /\ LET r == WikipediaHttpWords(hres)
       IN  /\ outs' = Append(outs, OutcomeOf(r))
           /\ StartStage("api")
           /\ UNCHANGED result
    /\ UNCHANGED <<warned, ctxVars, httpVars, browserVars, gatherVars, utilVars, parseVars, ctxHeaders>>

WikipediaHttpDone ==
    /\ call = "wikipedia_top_words"
    /\ pc = "http"
    /\ hstate = "done"
    /\ LET r == WikipediaHttpWords(hres)
       IN  /\ outs' = Append(outs, OutcomeOf(r))
           /\ IF OutcomeOf(r) = "words"
              THEN /\ Finish(r)
                   /\ UNCHANGED calls
              ELSE /\ StartStage("api")
                   /\ UNCHANGED result
    /\ UNCHANGED <<warned, ctxVars, httpVars, browserVars, gatherVars, utilVars, parseVars, ctxHeaders>>

\* the MediaWiki extracts API: one GET inside try/except; tokens only from
\* a 200 response with an extract
WikipediaApiWords(resp, top_n) ==
    IF resp.kind # "ok" \/ resp.body = NoHtml THEN NoWords
    ELSE MostCommon(DropStopwords(Tokenise(resp.body)), top_n)

WikipediaApiDone ==
    /\ call = "wikipedia_top_words"
    /\ pc = "api"
    /\ \E resp \in Responses, ua \in PoolInEffect(userAgents) :
         LET r == ReturnWords(WikipediaApiWords(resp, WIKI_DEFAULT_TOP_N))
         IN  /\ outs' = Append(outs, IF resp.kind # "ok" THEN "raise" ELSE OutcomeOf(r))
             /\ ctxHeaders' = CallerDictAfterMerge(ctxHeaders, Put(ctxHeaders, "User-Agent", ua))
             /\ Finish(r)
    /\ UNCHANGED <<calls, warned, ctxVars, httpVars, browserVars, gatherVars, utilVars, parseVars>>

\* ---- web_search_sdk/scrapers/news.py: legacy -> RSS ---------------------

GoogleNewsStart ==
    /\ call = "google_news_top_words"
    /\ pc = "start"
    /\ StartStage("legacy")
    /\ UNCHANGED <<outs, warned, result, ctxVars, httpVars, browserVars, gatherVars, utilVars, parseVars, ctxHeaders>>

GoogleNewsLegacyDone ==
    /\ call = "google_news_top_words"
    /\ pc = "legacy"
    /\ \E rss \in Responses, htm \in Responses, ua \in DEFAULT_UA :
         LET r == NewsLegacySync(rss, htm, DEFAULT_TOP_N)
             own == CallerDictAfterMerge(ctxHeaders, NewsLegacyHeaders(ctxHeaders, ua))
         IN  /\ outs' = Append(outs, OutcomeOf(r))
             /\ IF OutcomeOf(r) = "words"
                THEN /\ Finish(r)
                     /\ ctxHeaders' = own
                     /\ UNCHANGED <<calls, httpVars>>
                ELSE /\ StartStage("http")
                     /\ HttpEnterFrom(own)
                     /\ UNCHANGED result
    /\ UNCHANGED <<warned, ctxVars, browserVars, gatherVars, utilVars, parseVars>>

\* run_scraper(_fetch_rss, _parse_rss) inside try/except: [] on any exception
GoogleNewsRssWords(r) ==
    IF r.kind = "raise" THEN ReturnWords(NoWords)
    ELSE ReturnWords(FallbackParse(r.html, DEFAULT_TOP_N))

GoogleNewsRssDone ==
    /\ call = "google_news_top_words"
    /\ pc = "http"
    /\ hstate = "done"
    /\ outs' = Append(outs, IF hres.kind = "raise" THEN "raise"
                                                   ELSE OutcomeOf(GoogleNewsRssWords(hres)))
    /\ Finish(GoogleNewsRssWords(hres))
    /\ UNCHANGED <<calls, warned, ctxVars, httpVars, browserVars, gatherVars, utilVars, parseVars, ctxHeaders>>

\* ---- direct calls of the renderer and of fetch_text ---------------------

RenderStart ==
    /\ call = "fetch_html"
    /\ pc = "start"
    /\ StartStage("browser")
    /\ BrowserEnter(browser_type)
    /\ UNCHANGED <<outs, warned, result, ctxVars, httpVars, gatherVars, utilVars, parseVars, ctxHeaders>>

RenderDone ==
    /\ call = "fetch_html"
    /\ pc = "browser"
    /\ bpc = "done"
    /\ outs' = Append(outs, IF bres.kind = "raise" THEN "raise"
                            ELSE IF bres.html # NoHtml THEN "words" ELSE "empty")
    /\ Finish(bres)
    /\ UNCHANGED <<calls, warned, ctxVars, httpVars, browserVars, gatherVars, utilVars, parseVars, ctxHeaders>>

\* ---- web_search_sdk/scrapers/article_extractor.py: _fetch_html --------

\* len(html) > 1000: a body of three words or more stands for such a page
IsLong(html) == Len(html) >= 3
\* any(m.lower() in html.lower() for m in _block_markers)
IsBlocked(html) == LooksLikeCaptcha(html)

ArticleCalls == {"article_fetch_html", "extract_article_content"}

\* extract_article_content: without html a dict with empty content and an
\* 'error' entry (held in exc); otherwise the extracted content, no 'error'
ExtractFailed ==
    [kind |-> "return", words |-> NoWords, html |-> NoHtml, exc |-> <<"Failed to fetch content", 0>>]
ExtractArticleContent(html) ==
    IF html = NoHtml THEN ExtractFailed ELSE ReturnWords(Tokenise(html))

\* what the running call returns once _fetch_html returned html
ArticleReturn(html) ==
    IF call = "extract_article_content" THEN ExtractArticleContent(html) ELSE ReturnHtml(html)

\* headers = ctx.headers.copy(), two setdefault calls
ArticleHeaders(h) ==
    SetDefault(SetDefault(h, "User-Agent", "ua_article"), "Accept-Language", "en-US")

\* _fetch_html is entered: the HTTP stage builds its headers
ArticleStart ==
    /\ call \in ArticleCalls
    /\ pc = "start"
    /\ StartStage("http")
    /\ reqHeaders' = ArticleHeaders(ctxHeaders)
    /\ ctxHeaders' = CallerDictAfterMerge(ctxHeaders, reqHeaders')
    /\ UNCHANGED <<outs, warned, result, hstate, attempt, httpLog, sleeps, hres, sentUA,
                   ctxVars, browserVars, gatherVars, utilVars, parseVars>>

\* the body is accepted: `if len(html) > 1000 and not blocked: return html`
ArticleAccepts(resp) == resp.kind = "ok" /\ IsLong(resp.body) /\ ~IsBlocked(resp.body)

\* the single GET inside try/except, then `if ctx.use_browser`
ArticleHttpDone ==
    /\ call \in ArticleCalls
    /\ pc = "http"
    /\ \E resp \in Responses :
         /\ httpLog' = Append(httpLog, resp)
         /\ sentUA' = Append(sentUA, Get(reqHeaders, "User-Agent"))
         /\ hres' = IF resp.kind = "ok" THEN ReturnHtml(resp.body) ELSE Raise(<<resp.kind, 0>>)
         /\ IF ArticleAccepts(resp)
            THEN /\ outs' = Append(outs, "words")
                 /\ Finish(ArticleReturn(resp.body))
                 /\ UNCHANGED <<calls, browserVars>>
            ELSE /\ outs' = Append(outs, IF resp.kind = "ok" THEN "empty" ELSE "raise")
                 /\ IF use_browser
                    THEN /\ StartStage("browser")
                         /\ BrowserEnter(browser_type)
                         /\ UNCHANGED result
                    ELSE /\ Finish(ArticleReturn(NoHtml))
                         /\ UNCHANGED <<calls, browserVars>>
    /\ UNCHANGED <<warned, hstate, attempt, sleeps, reqHeaders, ctxVars, gatherVars, utilVars, parseVars,
                   ctxHeaders>>

\* an extractor that renders with Selenium again whatever the first backend
ArticleBrowserDoneAlwaysSelenium ==
    /\ call \in ArticleCalls
    /\ pc = "browser"
    /\ bpc = "done"
    /\ IF bres.kind = "return" /\ IsLong(bres.html)
       THEN /\ outs' = Append(outs, "words")
            /\ Finish(ArticleReturn(bres.html))
            /\ UNCHANGED <<calls, browserVars>>
       ELSE /\ outs' = Append(outs, IF bres.kind = "raise" THEN "raise" ELSE "empty")
            /\ IF selAvailable
               THEN /\ StartStage("browser_selenium")
                    /\ BrowserEnter("selenium")
                    /\ UNCHANGED result
               ELSE /\ Finish(ArticleReturn(NoHtml))
                    /\ UNCHANGED <<calls, browserVars>>
    /\ UNCHANGED <<warned, ctxVars, httpVars, gatherVars, utilVars, parseVars, ctxHeaders>>

\* the render with the configured backend, inside try/except; then, when
\* that backend is a Playwright variant and Selenium is importable, one
\* render with a new context whose browser_type is "selenium"
ArticleBrowserDone ==
    /\ call \in ArticleCalls
    /\ pc = "browser"
    /\ bpc = "done"
    /\ IF bres.kind = "return" /\ IsLong(bres.html)
       THEN /\ outs' = Append(outs, "words")
            /\ Finish(ArticleReturn(bres.html))
            /\ UNCHANGED <<calls, browserVars>>
       ELSE /\ outs' = Append(outs, IF bres.kind = "raise" THEN "raise" ELSE "empty")
            /\ IF browser_type \in {"playwright", "playwright_stealth"} /\ selAvailable
               THEN /\ StartStage("browser_selenium")
                    /\ BrowserEnter("selenium")
                    /\ UNCHANGED result
               ELSE /\ Finish(ArticleReturn(NoHtml))
                    /\ UNCHANGED <<calls, browserVars>>
    /\ UNCHANGED <<warned, ctxVars, httpVars, gatherVars, utilVars, parseVars, ctxHeaders>>

\* the Selenium render, inside try/except; `return ""` when it fails too
ArticleSeleniumDone ==
    /\ call \in ArticleCalls
    /\ pc = "browser_selenium"
    /\ bpc = "done"
    /\ IF bres.kind = "return" /\ IsLong(bres.html)
       THEN /\ outs' = Append(outs, "words")
            /\ Finish(ArticleReturn(bres.html))
       ELSE /\ outs' = Append(outs, IF bres.kind = "raise" THEN "raise" ELSE "empty")
            /\ Finish(ArticleReturn(NoHtml))
    /\ UNCHANGED <<calls, warned, ctxVars, httpVars, browserVars, gatherVars, utilVars, parseVars,
                   ctxHeaders>>

\* ---- web_search_sdk/scrapers/paywall.py --------------------------------

PaywallCalls == {"fetch_bloomberg", "fetch_cnbc"}

\* paywall._HEADERS
PAYWALL_HEADERS == {<<"User-Agent", "ua_paywall">>, <<"Accept-Language", "en-US">>}

\* _extract_article: the visible text of the page, "" for ""
ExtractArticle(html) == Tokenise(html)

\* len(txt) > 200: a text of two words or more stands for such an article
IsGoodArticle(txt) == Len(txt) >= 2

\* fetch_bloomberg / fetch_cnbc enter _fetch_and_parse and _quick_http_get
PaywallStart ==
    /\ call \in PaywallCalls
    /\ pc = "start"
    /\ StartStage("http")
    /\ reqHeaders' = PAYWALL_HEADERS
    /\ UNCHANGED <<outs, warned, result, hstate, attempt, httpLog, sleeps, hres, sentUA,
                   ctxVars, browserVars, gatherVars, utilVars, parseVars, ctxHeaders>>

\* what _quick_http_get returns: the body, "" on any exception
QuickHttpGet(resp) == IF resp.kind = "ok" THEN resp.body ELSE NoHtml

\* a _fetch_and_parse that renders whenever the HTTP text is short
PaywallHttpDoneAlwaysBrowser ==
    /\ call \in PaywallCalls
    /\ pc = "http"
    /\ \E resp \in Responses :
         LET txt == ExtractArticle(QuickHttpGet(resp))
         IN  /\ httpLog' = Append(httpLog, resp)
             /\ sentUA' = Append(sentUA, Get(reqHeaders, "User-Agent"))
             /\ hres' = ReturnHtml(QuickHttpGet(resp))
             /\ outs' = Append(outs, IF IsGoodArticle(txt) THEN "words" ELSE "empty")
             /\ IF IsGoodArticle(txt)
                THEN /\ Finish(ReturnWords(txt))
                     /\ UNCHANGED <<calls, browserVars>>
                ELSE /\ StartStage("browser")
                     /\ BrowserEnter(browser_type)
                     /\ UNCHANGED result
    /\ UNCHANGED <<warned, hstate, attempt, sleeps, reqHeaders, ctxVars, gatherVars, utilVars, parseVars,
                   ctxHeaders>>

\* _quick_http_get is back: the text is returned when longer than 200
\* characters; otherwise the browser renders if ctx.use_browser, else the
\* short text is returned
PaywallHttpDone ==
    /\ call \in PaywallCalls
    /\ pc = "http"
    /\ \E resp \in Responses :
         LET txt == ExtractArticle(QuickHttpGet(resp))
         IN  /\ httpLog' = Append(httpLog, resp)
             /\ sentUA' = Append(sentUA, Get(reqHeaders, "User-Agent"))
             /\ hres' = ReturnHtml(QuickHttpGet(resp))
             /\ outs' = Append(outs, IF IsGoodArticle(txt) THEN "words" ELSE "empty")
             /\ IF IsGoodArticle(txt)
                THEN /\ Finish(ReturnWords(txt))
                     /\ UNCHANGED <<calls, browserVars>>
                ELSE IF use_browser
                THEN /\ StartStage("browser")
                     /\ BrowserEnter(browser_type)
                     /\ UNCHANGED result
                ELSE /\ Finish(ReturnWords(txt))
                     /\ UNCHANGED <<calls, browserVars>>
    /\ UNCHANGED <<warned, hstate, attempt, sleeps, reqHeaders, ctxVars, gatherVars, utilVars, parseVars,
                   ctxHeaders>>

\* _fetch_via_browser is back (not guarded): the text of `html or ""`
PaywallBrowserText(r) ==
    IF r.kind = "raise" THEN r ELSE ReturnWords(ExtractArticle(r.html))

PaywallBrowserDone ==
    /\ call \in PaywallCalls
    /\ pc = "browser"
    /\ bpc = "done"
    /\ outs' = Append(outs, OutcomeOf(PaywallBrowserText(bres)))
    /\ Finish(PaywallBrowserText(bres))
    /\ UNCHANGED <<calls, warned, ctxVars, httpVars, browserVars, gatherVars, utilVars, parseVars,
                   ctxHeaders>>

\* ---- web_search_sdk/scrapers/search.py: search_and_parse -----------------

\* search_and_parse's default top_n
SEARCH_TOP_N == 10

\* duckduckgo_enhanced._fetch_html: ctx.choose_ua() or a fixed User-Agent,
\* two setdefault calls on a copy
EnhancedPool(pool) == IF pool = {} THEN {"ua_enhanced"} ELSE pool
EnhancedHeaders(h, ua) ==
    SetDefault(SetDefault(h, "User-Agent", ua), "Accept-Language", "en-US")

\* duckduckgo_enhanced._parse_html: one result per result block of the
\* page (a word of the body stands for a block), at most top_n of them
EnhancedResults(html, top_n) ==
    LET blocks == Tokenise(html) IN SubSeq(blocks, 1, Min(top_n, Len(blocks)))

\* ddg_search_and_parse: the mapping with 'links', 'tokens' and 'results';
\* its tokens are held in words
EnhancedParse(html, top_n) == ReturnWords(TextMostCommon(html, top_n))

\* search_and_parse_basic: tokens = soup.get_text().split()[:top_n]; the
\* mapping {'links', 'tokens'} with its tokens held in words
BasicParse(html, top_n) ==
    LET toks == Tokenise(html) IN ReturnWords(SubSeq(toks, 1, Min(top_n, Len(toks))))

\* search_and_parse enters ddg_search_and_parse and its _fetch_html
SearchStart ==
    /\ call = "search_and_parse"
    /\ pc = "start"
    /\ StartStage("enhanced")
    /\ \E ua \in EnhancedPool(userAgents) :
          /\ reqHeaders' = EnhancedHeaders(ctxHeaders, ua)
          /\ ctxHeaders' = CallerDictAfterMerge(ctxHeaders, reqHeaders')
    /\ hstate' = "request"
    /\ attempt' = 0
    /\ sentUA' = <<>>
    /\ UNCHANGED <<outs, warned, result, httpLog, sleeps, hres, ctxVars, browserVars,
                   gatherVars, utilVars, parseVars>>

\* the enhanced result is returned when it holds more than one result;
\* an exception is caught; otherwise search_and_parse_basic starts with
\* duckduckgo_web.fetch_serp_html
SearchEnhancedDone ==
    /\ call = "search_and_parse"
    /\ pc = "enhanced"
    /\ hstate = "done"
    /\ IF hres.kind = "return" /\ Len(EnhancedResults(hres.html, SEARCH_TOP_N)) > 1
       THEN /\ outs' = Append(outs, "words")
            /\ Finish(EnhancedParse(hres.html, SEARCH_TOP_N))
            /\ UNCHANGED <<calls, httpVars, ctxHeaders>>
       ELSE /\ outs' = Append(outs, IF hres.kind = "raise" THEN "raise" ELSE "empty")
            /\ StartStage("http")
            /\ HttpEnter
            /\ UNCHANGED result
    /\ UNCHANGED <<warned, ctxVars, browserVars, gatherVars, utilVars, parseVars>>

\* duckduckgo_web.fetch_serp_html is back, not guarded: its exception
\* leaves search_and_parse; its html is parsed; with "" Google's
\* fetch_serp_html is called, which warns and returns "" without
\* ctx.use_browser and renders otherwise
SearchDdgDone ==
    /\ call = "search_and_parse"
    /\ pc = "http"
    /\ hstate = "done"
    /\ IF hres.kind = "raise"
       THEN /\ outs' = Append(outs, "raise")
            /\ Finish(hres)
            /\ UNCHANGED <<calls, warned, browserVars>>
       ELSE IF hres.html # NoHtml
       THEN /\ outs' = Append(outs, "words")
            /\ Finish(BasicParse(hres.html, SEARCH_TOP_N))
            /\ UNCHANGED <<calls, warned, browserVars>>
       ELSE IF ~use_browser
       THEN /\ outs' = outs \o <<"empty", "empty">>
            /\ calls' = Append(calls, "google")
            /\ warned' = TRUE
            /\ Finish(BasicParse(NoHtml, SEARCH_TOP_N))
            /\ UNCHANGED browserVars
       ELSE /\ outs' = Append(outs, "empty")
            /\ StartStage("google")
            /\ BrowserEnter(browser_type)
            /\ UNCHANGED <<warned, result>>
    /\ UNCHANGED <<ctxVars, httpVars, gatherVars, utilVars, parseVars, ctxHeaders>>

\* Google's rendered SERP is back, not guarded: parsed by the basic parser
SearchGoogleResult(r) ==
    IF r.kind = "raise" THEN r ELSE BasicParse(r.html, SEARCH_TOP_N)

SearchGoogleDone ==
    /\ call = "search_and_parse"
    /\ pc = "google"
    /\ bpc = "done"
    /\ outs' = Append(outs, IF bres.kind = "raise" THEN "raise"
                            ELSE IF bres.html # NoHtml THEN "words" ELSE "empty")
    /\ Finish(SearchGoogleResult(bres))
    /\ UNCHANGED <<calls, warned, ctxVars, httpVars, browserVars, gatherVars, utilVars, parseVars,
                   ctxHeaders>>

FetchTextStart ==
    /\ call = "fetch_text"
    /\ pc = "start"
    /\ StartStage("http")
    /\ HttpEnter
    /\ UNCHANGED <<outs, warned, result, ctxVars, browserVars, gatherVars, utilVars, parseVars>>

FetchTextDone ==
    /\ call = "fetch_text"
    /\ pc = "http"
    /\ hstate = "done"
    /\ outs' = Append(outs, IF hres.kind = "raise" THEN "raise"
                            ELSE IF hres.html # NoHtml THEN "words" ELSE "empty")
    /\ Finish(hres)
    /\ UNCHANGED <<calls, warned, ctxVars, httpVars, browserVars, gatherVars, utilVars, parseVars, ctxHeaders>>

(***************************************************************************)
(* Spec: one call                                                          *)
(***************************************************************************)
JsonIdle ==
    /\ jfile = <<>>
    /\ jlog = <<>>

RateIdle ==
    /\ rcalls = 1
    /\ rperiod = 1
    /\ now = 0
    /\ bucket = 1
    /\ reset_at = 1
    /\ rlock = 0
    /\ rpc = <<>>
    /\ rstarts = <<>>

UtilIdle == JsonIdle /\ RateIdle

ParseIdle ==
    /\ pfn = "none"
    /\ ptext = <<>>
    /\ ptop = 0
    /\ ppc = "idle"
    /\ pout = <<>>

GatherIdle ==
    /\ terms = <<>>
    /\ parallelism = 1
    /\ gpc = "idle"
    /\ semValue = 0
    /\ waiters = <<>>
    /\ tpc = <<>>
    /\ tres = <<>>
    /\ texc = <<>>
    /\ tlog = <<>>
    /\ notified = <<>>
    /\ doneOrder = <<>>
    /\ gResult = <<>>
    /\ gExc = NoExc

\* the effective context: `ctx or ScraperContext()` gives the defaults
\* use_browser=False, browser_type="selenium", retries=2
\* the context a call builds when it is given none: ScraperContext(), but
\* extract_article_content enables the stealth Playwright renderer
DefaultUseBrowser(c) == c = "extract_article_content"
DefaultBrowserType(c) ==
    IF c = "extract_article_content" THEN "playwright_stealth" ELSE "selenium"

\* the state when one of the calls cs is made
CallInit(cs) ==
    /\ call \in cs
    /\ ctxGiven \in BOOLEAN
    /\ call \in {"fetch_html", "fetch_text", "article_fetch_html"} => ctxGiven
    /\ use_browser \in (IF ctxGiven THEN BOOLEAN ELSE {DefaultUseBrowser(call)})
    /\ browser_type \in (IF ctxGiven THEN BrowserTypes ELSE {DefaultBrowserType(call)})
    /\ retries \in (IF ctxGiven THEN 0..MaxRetries ELSE {DefaultRetries})
    /\ selAvailable \in BOOLEAN
    /\ pwAvailable \in BOOLEAN
    /\ userAgents \in (IF ctxGiven THEN {{}, CustomPool} ELSE {{}})
    /\ ctxHeaders \in (IF ctxGiven THEN HeaderArgs ELSE {{}})
    /\ pc = "start"
    /\ calls = <<>>
    /\ outs = <<>>
    /\ warned = FALSE
    /\ result = NoResult
    /\ hstate = "idle"
    /\ attempt = 0
    /\ httpLog = <<>>
    /\ sleeps = <<>>
    /\ hres = NoResult
    /\ reqHeaders = {}
    /\ sentUA = <<>>
    /\ rtype = "selenium"
    /\ bpc = "idle"
    /\ backend = "none"
    /\ handle = "none"
    /\ pending = NoExc
    /\ page = NoHtml
    /\ brLog = <<>>
    /\ bres = NoResult
    /\ GatherIdle
    /\ ParseIdle
    /\ UtilIdle

Init == CallInit(Calls)

Next ==
    \/ GoogleFetchSerpHtml
    \/ GoogleBrowserDone
    \/ CascadeStart
    \/ CascadeHttpDone
    \/ CascadeLegacyDone
    \/ CascadeBrowserDone
    \/ DuckDuckGoStart
    \/ DuckDuckGoHttpDone
    \/ WikipediaStart
    \/ WikipediaLegacyDone
    \/ WikipediaHttpDone
    \/ WikipediaApiDone
    \/ GoogleNewsStart
    \/ GoogleNewsLegacyDone
    \/ GoogleNewsRssDone
    \/ RenderStart
    \/ RenderDone
    \/ FetchTextStart
    \/ FetchTextDone
    \/ ArticleStart
    \/ ArticleHttpDone
    \/ ArticleBrowserDone
    \/ ArticleSeleniumDone
    \/ PaywallStart
    \/ PaywallHttpDone
    \/ PaywallBrowserDone
    \/ HttpAttempt
    \/ HttpSleepDone
    \/ BrowserNext

Spec == Init /\ [][Next]_vars

(***************************************************************************)
(* Claims checked under Spec                                               *)
(***************************************************************************)
TopWordsCalls == {"google_web_top_words", "duckduckgo_top_words",
                  "wikipedia_top_words", "google_news_top_words"}
Orchestrators == TopWordsCalls \cup {"google_web_top_words_cascade"}

\* C1: every per-source top-words orchestrator returns a token list and
\* never raises to its caller, whatever the outcome of each stage; when
\* every stage failed or was skipped it returns the empty list.
C1_TopWordsNeverRaises ==
    (call \in TopWordsCalls /\ pc = "done") =>
        /\ result.kind = "return"
        /\ (\A i \in DOMAIN outs : outs[i] \in {"empty", "raise"}) => result.words = NoWords

\* the stage order the claim C2 states for every orchestrator
StageRank(s) == IF s = "http" THEN 1 ELSE IF s = "legacy" THEN 2
                ELSE IF s = "browser" THEN 3 ELSE 4

\* a later stage only after every earlier one failed, the browser only
\* with ctx.use_browser, and the first non-empty result returned
CascadeDiscipline ==
    /\ \A k \in 1..(Len(calls) - 1) : k <= Len(outs) /\ outs[k] \in {"empty", "raise"}
    /\ (\E k \in DOMAIN calls : calls[k] = "browser") => use_browser
    /\ Len(outs) <= Len(calls)
    /\ (pc = "done" /\ result.kind = "return" /\ result.words # NoWords) =>
           /\ Len(outs) = Len(calls)
           /\ outs[Len(outs)] = "words"

StageOrder(c) ==
    IF c = "google_web_top_words_cascade" THEN <<"http", "legacy", "browser">>
    ELSE IF c = "wikipedia_top_words" THEN <<"legacy", "http", "api">>
    ELSE IF c = "google_news_top_words" THEN <<"legacy", "http">>
    ELSE IF c = "google_web_top_words" THEN <<"browser">>
    ELSE <<"http">>

Failed(i) == httpLog[i].kind \in FailureKinds

\* C3: the fetcher issues its attempts one after another and stops at the
\* first success: a success at attempt k <= retries+1 returns that
\* attempt's body after exactly k attempts; retries+1 failures raise the
\* last attempt's exception after exactly retries+1 attempts; a non-2xx
\* status and a transport error are treated alike.
C3_StopsAtFirstSuccess ==
    LET n == Len(httpLog)
    IN  /\ n <= retries + 1
        /\ \A i \in 1..(n - 1) : Failed(i)
        /\ hstate \in {"request", "sleep"} => \A i \in 1..n : Failed(i)
        /\ hstate = "request" => n = attempt
        /\ hstate = "sleep" => n = attempt + 1 /\ n <= retries
        /\ hstate = "done" =>
              /\ n >= 1
              /\ hres.kind \in {"return", "raise"}
              /\ hres.kind = "return" <=> httpLog[n].kind = "ok"
              /\ hres.kind = "return" => hres.html = httpLog[n].body
              /\ hres.kind = "raise" => /\ n = retries + 1
                                        /\ hres.exc = <<httpLog[n].kind, n - 1>>
        /\ (call = "fetch_text" /\ pc = "done") => result = hres

C3_Witness ==
    /\ call = "fetch_text"
    /\ retries = 1
    /\ pc = "done"
    /\ Len(httpLog) = 2
    /\ httpLog[1].kind = "transport"
    /\ httpLog[2].kind = "ok"
    /\ result = ReturnHtml(<<"btc">>)

FailedAttempts == Cardinality({i \in DOMAIN httpLog : Failed(i)})
\* no sleep follows the final failed attempt; the single GET of
\* _quick_http_get is no retrying fetcher and never sleeps
NoSleepBeforeRaise ==
    IF call \in PaywallCalls
    THEN sleeps = <<>>
    ELSE Len(sleeps) = FailedAttempts - (IF hres.kind = "raise" THEN 1 ELSE 0)

\* C4 as stated: after failed attempt a (0-based) with attempts left, the
\* fetcher sleeps base_delay * (a+1), so delays grow linearly; it does not
\* sleep after the final failed attempt.
C4_LinearBackoff ==
    /\ \A i \in DOMAIN sleeps :
          sleeps[i] = (IF call \in {"google_web_top_words_cascade", "duckduckgo_top_words"}
                       THEN 3 ELSE 5) * i
    /\ NoSleepBeforeRaise

\* C4 amended: the per-source fetchers (_fetch_html, _fetch_rss) sleep
\* base_delay * (a+1) after failed attempt a; fetch_text sleeps
\* 0.5 * 2**a (1, 2, 4, ... units of 0.5 s); none sleeps after the final
\* failed attempt.
C4_BackoffPerFetcher ==
    /\ \A i \in DOMAIN sleeps :
          sleeps[i] = (IF call = "fetch_text" THEN 5 * 2^(i - 1)
                       ELSE IF call \in {"google_web_top_words_cascade", "duckduckgo_top_words"}
                       THEN 3 * i ELSE 5 * i)
    /\ NoSleepBeforeRaise

C4_Witness ==
    /\ call = "fetch_text"
    /\ sleeps = <<5, 10, 20>>
    /\ hres.kind = "raise"

GoogleCalls == {"google_web_top_words", "fetch_serp_html"}

Selects == Cardinality({i \in DOMAIN brLog : brLog[i] = "select"})

C10_RendererNeverRaises ==
    /\ bres.kind # "raise"
    /\ (call = "fetch_html" /\ pc = "done") => result.kind = "return"

Launched == \E i \in DOMAIN brLog : brLog[i] = "launch"
ReleaseSteps == {"close", "close_failed", "stop"}

BackendOf(bt) == IF bt \in {"playwright", "playwright_stealth"} THEN "playwright" ELSE "selenium"
Available(b) == IF b = "playwright" THEN pwAvailable ELSE selAvailable

\* C12: when the backend named by ctx.browser_type is not importable,
\* fetch_html returns "" without launching anything, without raising and
\* without switching to the other backend.
C12_UnavailableBackendReturnsEmpty ==
    (bpc \notin {"idle", "select"} /\ ~Available(BackendOf(rtype))) =>
        /\ bpc = "done"
        /\ bres = ReturnHtml(NoHtml)
        /\ brLog = <<"select">>
        /\ handle = "none"
        /\ backend = BackendOf(rtype)

C12_Witness ==
    /\ call = "fetch_html"
    /\ pc = "done"
    /\ browser_type = "playwright_stealth"
    /\ ~pwAvailable
    /\ selAvailable
    /\ brLog = <<"select">>
    /\ result = ReturnHtml(NoHtml)

\* C13 as stated: for both backends the page source is extracted only
\* after the wait for the body element.
C13_ExtractAfterBodyWait ==
    \A i \in DOMAIN brLog :
        brLog[i] = "extract" => \E j \in 1..(i - 1) : brLog[j] \in {"wait", "wait_failed"}

StepRank(ev) ==
    CASE ev = "select" -> 1
      [] ev \in {"launch", "launch_failed"} -> 2
      [] ev = "new_page_failed" -> 3
      [] ev \in {"navigate", "navigate_failed"} -> 4
      [] ev \in {"wait", "wait_failed"} -> 5
      [] ev \in {"extract", "extract_failed"} -> 6
      [] ev \in {"close", "close_failed"} -> 7
      [] ev = "stop" -> 8

\* C13 amended: the backend is chosen from ctx.browser_type alone and the
\* steps of a render call come in the order launch, navigate, (Selenium
\* only) wait for the body element, extract, close; Selenium extracts
\* right after the body wait, Playwright right after the navigation with
\* no body wait; after an extraction the close step ends the call.
C13_StepsInCodeOrder ==
    /\ bpc \notin {"idle", "select"} => backend = BackendOf(rtype)
    /\ \A i \in 1..(Len(brLog) - 1) : StepRank(brLog[i]) < StepRank(brLog[i + 1])
    /\ \A i \in DOMAIN brLog :
          /\ brLog[i] \in {"extract", "extract_failed"} =>
                /\ i > 1
                /\ brLog[i - 1] \in (IF backend = "selenium" THEN {"wait", "wait_failed"}
                                                               ELSE {"navigate"})
          /\ brLog[i] \in {"wait", "wait_failed"} =>
                backend = "selenium" /\ i > 1 /\ brLog[i - 1] = "navigate"
          /\ brLog[i] \in {"navigate", "navigate_failed"} => i > 1 /\ brLog[i - 1] = "launch"
          /\ brLog[i] \in {"launch", "launch_failed"} => i > 1 /\ brLog[i - 1] = "select"
    /\ (bpc = "done" /\ \E i \in DOMAIN brLog : brLog[i] = "extract") =>
          \E i \in DOMAIN brLog :
              /\ brLog[i] \in {"close", "close_failed"}
              /\ i > 1 /\ brLog[i - 1] = "extract"
              /\ i >= Len(brLog) - 1

C13_Witness ==
    /\ bpc = "done"
    /\ backend = "playwright"
    /\ brLog = <<"select", "launch", "navigate", "extract", "close", "stop">>
    /\ bres.kind = "return"
    /\ bres.html # NoHtml

\* the body the HTTP stage of the running call received, if any
HttpStageBody == IF httpLog # <<>> /\ httpLog[Len(httpLog)].kind = "ok"
                 THEN httpLog[Len(httpLog)].body ELSE NoHtml
HttpStageBlocked == httpLog # <<>> /\ httpLog[Len(httpLog)].kind = "ok"
                    /\ LooksLikeCaptcha(HttpStageBody)
HttpStageFailed == httpLog # <<>> /\ httpLog[Len(httpLog)].kind # "ok"

\* C18: when the body a stage fetched is detected as a block page (the
\* cascade's _parse_html, the article extractor's HTTP stage), the stage
\* yields nothing and the orchestrator goes on to the same next stage as
\* after a failed fetch: the cascade to its legacy stage, the article
\* extractor to the browser when ctx.use_browser is set and to "" when it is
\* not; the blocked page's tokens or html are never the call's result while
\* that next stage is untried, and a blocked page in the cascade's last
\* stage gives [].
C18_BlockedPageFallsThrough ==
    /\ (call = "google_web_top_words_cascade" /\ Len(outs) >= 1
            /\ (HttpStageBlocked \/ HttpStageFailed))
        => /\ outs[1] # "words"
           /\ Len(calls) >= 2
           /\ calls[2] = "legacy"
    /\ (call = "google_web_top_words_cascade" /\ Len(outs) >= 1 /\ HttpStageBlocked)
        => outs[1] = "empty"
    /\ (call = "google_web_top_words_cascade" /\ pc = "done" /\ Len(calls) = 3
            /\ bres.kind = "return" /\ LooksLikeCaptcha(bres.html))
        => result = ReturnWords(NoWords)
    /\ (call = "article_fetch_html" /\ Len(outs) >= 1
            /\ (HttpStageBlocked \/ HttpStageFailed))
        => /\ outs[1] # "words"
           /\ IF use_browser
              THEN Len(calls) >= 2 /\ calls[2] = "browser"
              ELSE pc = "done" /\ calls = <<"http">> /\ result = ReturnHtml(NoHtml)
    /\ (call = "article_fetch_html" /\ Len(outs) >= 1 /\ HttpStageBlocked)
        => outs[1] = "empty"
    /\ (call = "article_fetch_html" /\ pc = "done" /\ HttpStageBlocked /\ Len(calls) = 1)
        => result.html = NoHtml

C18_Witness ==
    /\ call = "google_web_top_words_cascade"
    /\ pc = "done"
    /\ hres = ReturnHtml(<<CaptchaMarker, "btc", "btc">>)
    /\ calls = <<"http", "legacy">>
    /\ outs = <<"empty", "words">>
    /\ result.words # NoWords

C20_EveryAttemptCarriesUserAgent ==
    call = "fetch_text" =>
        /\ Len(sentUA) = Len(httpLog)
        /\ \A i \in DOMAIN sentUA :
              IF HasKey(ctxHeaders, "User-Agent")
              THEN sentUA[i] = Get(ctxHeaders, "User-Agent")
              ELSE sentUA[i] \in PoolInEffect(userAgents)

C20_Witness ==
    /\ call = "fetch_text"
    /\ pc = "done"
    /\ ctxHeaders = {}
    /\ userAgents = CustomPool
    /\ sentUA = <<"ua_custom", "ua_custom">>
    /\ httpLog[1].kind # "ok"

C22_ApiOnlyAsLastResort ==
    call = "wikipedia_top_words" =>
        /\ \A i \in DOMAIN calls : calls[i] = "api" =>
              /\ calls = <<"legacy", "http", "api">>
              /\ outs[1] \in {"empty", "raise"}
              /\ outs[2] \in {"empty", "raise"}
        /\ (Len(outs) >= 2 /\ outs[1] # "words" /\ outs[2] # "words") =>
              Len(calls) = 3 /\ calls[3] = "api"
        /\ (pc = "done" /\ Len(outs) = 3 /\ outs[3] = "raise") =>
              result = ReturnWords(NoWords)
        /\ pc = "done" => result.kind = "return"

C22_Witness ==
    /\ call = "wikipedia_top_words"
    /\ pc = "done"
    /\ calls = <<"legacy", "http", "api">>
    /\ outs = <<"raise", "empty", "raise">>
    /\ result = ReturnWords(NoWords)

\* the stages the article extractor has entered
ArticleStages == {calls[i] : i \in DOMAIN calls}

\* C27: the article extractor's _fetch_html makes one plain-HTTP request
\* first and returns its body only when it is long enough and holds no
\* block marker; otherwise, and only with ctx.use_browser, it renders with
\* the configured backend and, only when that backend is a Playwright
\* variant and Selenium is importable, once more with Selenium; it never
\* raises, returns "" when no stage gave a page, and extract_article_content
\* then returns empty content with an 'error' entry.
C27_ArticleFetchCascade ==
    call \in ArticleCalls =>
        /\ \E n \in 0..3 : calls = SubSeq(<<"http", "browser", "browser_selenium">>, 1, n)
        /\ Len(httpLog) <= 1
        /\ Len(outs) >= 1 => (outs[1] = "words" <=> ArticleAccepts(httpLog[1]))
        /\ "browser" \in ArticleStages <=>
              (Len(outs) >= 1 /\ outs[1] # "words" /\ use_browser)
        /\ "browser" \in ArticleStages => rtype = browser_type \/ Len(calls) = 3
        /\ "browser_selenium" \in ArticleStages <=>
              /\ Len(outs) >= 2
              /\ outs[2] # "words"
              /\ browser_type \in {"playwright", "playwright_stealth"}
              /\ selAvailable
        /\ Len(calls) = 3 => rtype = "selenium"
        /\ pc = "done" =>
              /\ result.kind = "return"
              /\ Len(outs) = Len(calls)
              /\ IF outs[Len(outs)] = "words"
                 THEN /\ result.exc = NoExc
                      /\ call = "article_fetch_html" =>
                            /\ result.html # NoHtml
                            /\ Len(calls) = 1 => result.html = httpLog[1].body
                 ELSE result = (IF call = "extract_article_content"
                                THEN ExtractFailed ELSE ReturnHtml(NoHtml))

C27_Witness ==
    /\ call = "extract_article_content"
    /\ ~ctxGiven
    /\ pc = "done"
    /\ calls = <<"http", "browser", "browser_selenium">>
    /\ httpLog[1].kind = "ok"
    /\ IsBlocked(httpLog[1].body)
    /\ outs = <<"empty", "empty", "raise">>
    /\ result = ExtractFailed

\* C24: fetch_bloomberg and fetch_cnbc first make one quick HTTP GET whose
\* failure does not raise; the browser renders only if ctx.use_browser and
\* the text extracted from the HTTP body has at most 200 characters; without
\* use_browser the browser is never invoked and the HTTP text is returned.
C24_QuickGetThenBrowser ==
    call \in PaywallCalls =>
        /\ Len(httpLog) <= 1
        /\ Len(calls) >= 1 => calls[1] = "http"
        /\ Len(outs) >= 1 =>
              /\ Len(httpLog) = 1
              /\ hres = ReturnHtml(QuickHttpGet(httpLog[1]))
              /\ (Len(calls) = 2 /\ calls[2] = "browser") <=>
                    (use_browser /\ ~IsGoodArticle(ExtractArticle(hres.html)))
              /\ Len(calls) <= 2
        /\ ~use_browser =>
              /\ bpc = "idle"
              /\ brLog = <<>>
              /\ pc = "done" => result = ReturnWords(ExtractArticle(hres.html))
        /\ (pc = "done" /\ Len(calls) = 1) => result = ReturnWords(ExtractArticle(hres.html))

C24_Witness ==
    /\ call = "fetch_bloomberg"
    /\ pc = "done"
    /\ use_browser
    /\ httpLog = <<[kind |-> "transport", body |-> NoHtml]>>
    /\ calls = <<"http", "browser">>
    /\ result.kind = "return"
    /\ IsGoodArticle(result.words)

(***************************************************************************)
(* One call of the cascading google_web_top_words, every step of which is  *)
(* eventually taken (each await completes)                                 *)
(***************************************************************************)
\* the largest ctx.retries of the cascade's runs
MaxCascadeRetries == 1

InitCascade ==
    /\ Init
    /\ call = "google_web_top_words_cascade"
    /\ retries <= MaxCascadeRetries
    /\ ctxHeaders = {}
    /\ userAgents = {}

NextCascade ==
    \/ CascadeStart
    \/ CascadeHttpDone
    \/ CascadeLegacyDone
    \/ CascadeBrowserDone
    \/ HttpAttempt
    \/ HttpSleepDone
    \/ BrowserNext

SpecCascade == InitCascade /\ [][NextCascade]_vars /\ WF_vars(NextCascade)

\* the stages of the cascade are entered in increasing order, each once
EachStageOnce ==
    /\ \A i, j \in DOMAIN calls : i < j => StageRank(calls[i]) < StageRank(calls[j])
    /\ \A i \in DOMAIN calls : calls[i] \in {"http", "legacy", "browser"}
    /\ Len(httpLog) <= retries + 1
    /\ Cardinality({i \in DOMAIN calls : calls[i] = "legacy"}) <= 1
    /\ Cardinality({i \in DOMAIN calls : calls[i] = "browser"}) <= 1
    /\ Cardinality({i \in DOMAIN brLog : brLog[i] = "navigate"}) <= 1

\* C30: in one call of the cascading google_web_top_words each stage is
\* entered at most once and never after a later stage started, so the call
\* makes at most ctx.retries + 1 plain-HTTP attempts, at most one legacy
\* request and at most one browser render, and it terminates.
C30_StagesOnceThenTerminates ==
    /\ []EachStageOnce
    /\ <>(pc = "done")

C30_Witness ==
    /\ pc = "done"
    /\ calls = <<"http", "legacy", "browser">>
    /\ Len(httpLog) = retries + 1
    /\ retries = MaxCascadeRetries
    /\ \E i \in DOMAIN brLog : brLog[i] = "navigate"

(***************************************************************************)
(* One call of search_and_parse                                            *)
(***************************************************************************)
\* the largest ctx.retries of search_and_parse's runs
MaxSearchRetries == 1

InitSearch ==
    /\ CallInit({"search_and_parse"})
    /\ retries <= MaxSearchRetries
    /\ ctxHeaders \in {{}, {<<"User-Agent", "ua_caller">>}}

NextSearch ==
    \/ SearchStart
    \/ SearchEnhancedDone
    \/ SearchDdgDone
    \/ SearchGoogleDone
    \/ HttpAttempt
    \/ HttpSleepDone
    \/ BrowserNext

SpecSearch == InitSearch /\ [][NextSearch]_vars

\* the sources search_and_parse has consulted
SearchSources == {calls[i] : i \in DOMAIN calls}

\* C23: search_and_parse consults enhanced DuckDuckGo, then DuckDuckGo
\* HTML, then Google HTML; a later source is consulted exactly when every
\* earlier one raised or gave an empty or insufficient result (enhanced: at
\* most one result; DuckDuckGo HTML: empty), and the call always returns a
\* mapping with 'links' and 'tokens'.
C23_SearchSourcesCascade ==
    /\ \E n \in 0..3 : calls = SubSeq(<<"enhanced", "http", "google">>, 1, n)
    /\ "http" \in SearchSources <=> (Len(outs) >= 1 /\ outs[1] \in {"empty", "raise"})
    /\ "google" \in SearchSources <=>
          (Len(outs) >= 2 /\ outs[1] \in {"empty", "raise"} /\ outs[2] \in {"empty", "raise"})
    /\ pc = "done" => result.kind = "return"

(***************************************************************************)
(* Fan-out runner: base.gather_scrapers                                    *)
(***************************************************************************)
TermSet == {"btc", "eth"}
TermLists == UNION {[1..n -> TermSet] : n \in 0..MaxTerms}

\* the caller's fetch and parse functions, when they do not raise
Fetch(t) == <<"raw", t>>
Parse(raw) == <<"parsed", raw[2]>>
NoValue == <<"none", "none">>

\* the tasks created by gather, one per term
Tasks == DOMAIN tpc

\* a semaphore larger by one than the parallelism asked for
SemaphoreSizePlusOne == parallelism + 1

\* sem = asyncio.Semaphore(parallelism)
SemaphoreSize == parallelism

\* asyncio.Semaphore.locked(): no permit left, or somebody queued
SemLocked == semValue = 0 \/ waiters # <<>>

\* the tasks that hold a permit: inside `async with sem`
Holders == {i \in Tasks : tpc[i] \in {"woken", "fetching"}}

\* gather_scrapers up to `await asyncio.gather(...)`: one task per term;
\* gather of no awaitable is done at once with []
GatherCall ==
    /\ gpc = "idle"
    /\ semValue' = SemaphoreSize
    /\ tpc' = [i \in DOMAIN terms |-> "created"]
    /\ tres' = [i \in DOMAIN terms |-> NoValue]
    /\ texc' = [i \in DOMAIN terms |-> NoExc]
    /\ tlog' = [i \in DOMAIN terms |-> <<>>]
    /\ gpc' = IF terms = <<>> THEN "returned" ELSE "pending"
    /\ UNCHANGED <<terms, parallelism, waiters, notified, doneOrder, gResult, gExc,
                   ctxVars, orchVars, httpVars, browserVars, parseVars, utilVars, ctxHeaders>>

\* the first step of _runner, in creation order: `async with sem` takes a
\* permit and enters run_scraper (await fetch), or queues on the semaphore
TaskStart(i) ==
    /\ gpc # "idle"
    /\ tpc[i] = "created"
    /\ \A j \in 1..(i - 1) : tpc[j] # "created"
    /\ IF SemLocked
       THEN /\ waiters' = Append(waiters, i)
            /\ tpc' = [tpc EXCEPT ![i] = "waiting"]
            /\ tlog' = [tlog EXCEPT ![i] = Append(@, "wait")]
            /\ UNCHANGED semValue
       ELSE /\ semValue' = semValue - 1
            /\ tpc' = [tpc EXCEPT ![i] = "fetching"]
            /\ tlog' = [tlog EXCEPT ![i] = Append(@, "acquire")]
            /\ UNCHANGED waiters
    /\ UNCHANGED <<terms, parallelism, gpc, tres, texc, notified, doneOrder, gResult, gExc,
                   ctxVars, orchVars, httpVars, browserVars, parseVars, utilVars, ctxHeaders>>

\* a woken waiter resumes: it leaves the queue and enters run_scraper
TaskResume(i) ==
    /\ tpc[i] = "woken"
    /\ waiters' = SelectSeq(waiters, LAMBDA j : j # i)
    /\ tpc' = [tpc EXCEPT ![i] = "fetching"]
    /\ tlog' = [tlog EXCEPT ![i] = Append(@, "acquire")]
    /\ UNCHANGED <<terms, parallelism, gpc, semValue, tres, texc, notified, doneOrder,
                   gResult, gExc, ctxVars, orchVars, httpVars, browserVars, parseVars, utilVars, ctxHeaders>>

\* the first queued task not yet woken, 0 when there is none
NextWaiter ==
    LET idx == {k \in DOMAIN waiters : tpc[waiters[k]] = "waiting"}
    IN  IF idx = {} THEN 0
        ELSE waiters[CHOOSE k \in idx : \A m \in idx : k <= m]

\* a _runner that keeps its permit when its fetch or parse raises
TaskFinishKeepsPermitOnRaise(i) ==
    /\ tpc[i] = "fetching"
    /\ \E outcome \in {"ok", "fetch_raised", "parse_raised"} :
         /\ tres' = [tres EXCEPT ![i] = IF outcome = "ok" THEN Parse(Fetch(terms[i])) ELSE @]
         /\ texc' = [texc EXCEPT ![i] = IF outcome = "ok" THEN @ ELSE <<outcome, i>>]
         /\ tlog' = [tlog EXCEPT ![i] = @ \o
                        (IF outcome = "ok" THEN <<"fetch", "parse", "release">>
                         ELSE IF outcome = "parse_raised"
                         THEN <<"fetch", "parse_raised">>
                         ELSE <<"fetch_raised">>)]
         /\ LET w == NextWaiter
                st == IF outcome = "ok" THEN "done" ELSE "failed"
            IN  IF outcome # "ok"
                THEN /\ UNCHANGED semValue
                     /\ tpc' = [tpc EXCEPT ![i] = st]
                ELSE IF w = 0
                THEN /\ semValue' = semValue + 1
                     /\ tpc' = [tpc EXCEPT ![i] = st]
                ELSE /\ UNCHANGED semValue
                     /\ tpc' = [tpc EXCEPT ![i] = st, ![w] = "woken"]
    /\ doneOrder' = Append(doneOrder, i)
    /\ UNCHANGED <<terms, parallelism, gpc, waiters, notified, gResult, gExc,
                   ctxVars, orchVars, httpVars, browserVars, parseVars, utilVars, ctxHeaders>>

\* the task's fetch is back: run_scraper parses at once, `async with`
\* releases the permit (handing it to the first waiter) and the task ends
\* with a result or with the exception of its fetch or parse
TaskFinish(i) ==
    /\ tpc[i] = "fetching"
    /\ \E outcome \in {"ok", "fetch_raised", "parse_raised"} :
         /\ tres' = [tres EXCEPT ![i] = IF outcome = "ok" THEN Parse(Fetch(terms[i])) ELSE @]
         /\ texc' = [texc EXCEPT ![i] = IF outcome = "ok" THEN @ ELSE <<outcome, i>>]
         /\ tlog' = [tlog EXCEPT ![i] = @ \o
                        (IF outcome = "ok" THEN <<"fetch", "parse", "release">>
                         ELSE IF outcome = "parse_raised"
                         THEN <<"fetch", "parse_raised", "release">>
                         ELSE <<"fetch_raised", "release">>)]
         /\ LET w == NextWaiter
                st == IF outcome = "ok" THEN "done" ELSE "failed"
            IN  IF w = 0
                THEN /\ semValue' = semValue + 1
                     /\ tpc' = [tpc EXCEPT ![i] = st]
                ELSE /\ UNCHANGED semValue
                     /\ tpc' = [tpc EXCEPT ![i] = st, ![w] = "woken"]
    /\ doneOrder' = Append(doneOrder, i)
    /\ UNCHANGED <<terms, parallelism, gpc, waiters, notified, gResult, gExc,
                   ctxVars, orchVars, httpVars, browserVars, parseVars, utilVars, ctxHeaders>>

\* a gather that collects the results in order of completion
CollectResultsByCompletion == [k \in Tasks |-> tres[doneOrder[k]]]

\* gather's result list: the children's results in the order of the awaitables
CollectResults == [k \in Tasks |-> tres[k]]

\* a gather that hands exceptions back inside the result list
GatherDoneCallbackReturnExceptions ==
    /\ Len(notified) < Len(doneOrder)
    /\ notified' = Append(notified, doneOrder[Len(notified) + 1])
    /\ IF gpc = "pending" /\ Len(notified) + 1 = Len(terms)
       THEN /\ gpc' = "returned"
            /\ gResult' = CollectResults
            /\ UNCHANGED gExc
       ELSE UNCHANGED <<gpc, gResult, gExc>>
    /\ UNCHANGED <<terms, parallelism, semValue, waiters, tpc, tres, texc, tlog, doneOrder,
                   ctxVars, orchVars, httpVars, browserVars, parseVars, utilVars, ctxHeaders>>

\* a gather that cancels the unfinished tasks when one of them raises
GatherDoneCallbackCancelsOthers ==
    /\ Len(notified) < Len(doneOrder)
    /\ LET i == doneOrder[Len(notified) + 1]
       IN  /\ notified' = Append(notified, i)
           /\ IF gpc # "pending"
              THEN UNCHANGED <<gpc, gResult, gExc, tpc>>
              ELSE IF tpc[i] = "failed"
              THEN /\ gpc' = "raised"
                   /\ gExc' = texc[i]
                   /\ tpc' = [j \in Tasks |-> IF tpc[j] \in {"done", "failed"}
                                              THEN tpc[j] ELSE "cancelled"]
                   /\ UNCHANGED gResult
              ELSE IF Len(notified) + 1 = Len(terms)
              THEN /\ gpc' = "returned"
                   /\ gResult' = CollectResults
                   /\ UNCHANGED <<gExc, tpc>>
              ELSE UNCHANGED <<gpc, gResult, gExc, tpc>>
    /\ UNCHANGED <<terms, parallelism, semValue, waiters, tres, texc, tlog, doneOrder,
                   ctxVars, orchVars, httpVars, browserVars, parseVars, utilVars, ctxHeaders>>

\* asyncio.gather's done-callback of the next finished task
\* (return_exceptions=False): the first exception fails the outer future
\* at once; the last result completes it with the ordered list
GatherDoneCallback ==
    /\ Len(notified) < Len(doneOrder)
    /\ LET i == doneOrder[Len(notified) + 1]
       IN  /\ notified' = Append(notified, i)
           /\ IF gpc # "pending"
              THEN UNCHANGED <<gpc, gResult, gExc>>
              ELSE IF tpc[i] = "failed"
              THEN /\ gpc' = "raised"
                   /\ gExc' = texc[i]
                   /\ UNCHANGED gResult
              ELSE IF Len(notified) + 1 = Len(terms)
              THEN /\ gpc' = "returned"
                   /\ gResult' = CollectResults
                   /\ UNCHANGED gExc
              ELSE UNCHANGED <<gpc, gResult, gExc>>
    /\ UNCHANGED <<terms, parallelism, semValue, waiters, tpc, tres, texc, tlog, doneOrder,
                   ctxVars, orchVars, httpVars, browserVars, parseVars, utilVars, ctxHeaders>>

InitGather ==
    /\ call = "gather_scrapers"
    /\ ctxGiven = TRUE
    /\ use_browser = FALSE
    /\ browser_type = "selenium"
    /\ retries = DefaultRetries
    /\ selAvailable = FALSE
    /\ pwAvailable = FALSE
    /\ userAgents = {}
    /\ ctxHeaders = {}
    /\ pc = "start"
    /\ calls = <<>>
    /\ outs = <<>>
    /\ warned = FALSE
    /\ result = NoResult
    /\ hstate = "idle"
    /\ attempt = 0
    /\ httpLog = <<>>
    /\ sleeps = <<>>
    /\ hres = NoResult
    /\ reqHeaders = {}
    /\ sentUA = <<>>
    /\ rtype = "selenium"
    /\ bpc = "idle"
    /\ backend = "none"
    /\ handle = "none"
    /\ pending = NoExc
    /\ page = NoHtml
    /\ brLog = <<>>
    /\ bres = NoResult
    /\ terms \in TermLists
    /\ parallelism \in 1..MaxParallelism
    /\ gpc = "idle"
    /\ semValue = 0
    /\ waiters = <<>>
    /\ tpc = <<>>
    /\ tres = <<>>
    /\ texc = <<>>
    /\ tlog = <<>>
    /\ notified = <<>>
    /\ doneOrder = <<>>
    /\ gResult = <<>>
    /\ gExc = NoExc
    /\ ParseIdle
    /\ UtilIdle

NextGather ==
    \/ GatherCall
    \/ \E i \in Tasks : TaskStart(i)
    \/ \E i \in Tasks : TaskResume(i)
    \/ \E i \in Tasks : TaskFinish(i)
    \/ GatherDoneCallback

SpecGather == InitGather /\ [][NextGather]_vars

\* the event loop runs every ready task and callback, and every fetch ends
SpecGatherFair == InitGather /\ [][NextGather]_vars /\ WF_vars(NextGather)

(***************************************************************************)
(* Claims checked under SpecGather                                         *)
(***************************************************************************)
AllNotified == gpc # "idle" /\ Len(notified) = Len(terms)
SomeFailed == \E i \in DOMAIN tpc : tpc[i] = "failed"

\* C5: when no task raises, gather_scrapers returns a list of exactly
\* len(terms) results whose i-th element is the parse of the fetch of
\* terms[i], whatever the order in which the tasks complete.
C5_ResultsInInputOrder ==
    /\ gpc = "returned" =>
          /\ Len(gResult) = Len(terms)
          /\ \A i \in DOMAIN terms : gResult[i] = Parse(Fetch(terms[i]))
    /\ (AllNotified /\ ~SomeFailed) => gpc = "returned"

C5_Witness ==
    /\ gpc = "returned"
    /\ terms = <<"btc", "eth", "btc">>
    /\ doneOrder = <<2, 3, 1>>
    /\ gResult = <<Parse(Fetch("btc")), Parse(Fetch("eth")), Parse(Fetch("btc"))>>

Before(log, a, b) ==
    \A k \in DOMAIN log : log[k] = b => \E m \in 1..(k - 1) : log[m] = a

\* C6: at most `parallelism` tasks are inside their fetch-then-parse
\* section (between acquiring and releasing the semaphore) in every
\* reachable state; within a task the parse starts only after its fetch
\* has returned.
C6_AtMostParallelismInside ==
    gpc # "idle" =>
        /\ Cardinality(Holders) <= parallelism
        /\ semValue >= 0
        /\ \A i \in Tasks :
              /\ Before(tlog[i], "acquire", "fetch")
              /\ Before(tlog[i], "fetch", "parse")
              /\ Before(tlog[i], "fetch", "parse_raised")
              /\ Before(tlog[i], "parse", "release") \/ tpc[i] = "failed"
              /\ tpc[i] = "fetching" => tlog[i][Len(tlog[i])] = "acquire"

C6_Witness ==
    /\ Len(terms) = 3
    /\ parallelism = 1
    /\ tpc = <<"done", "fetching", "waiting">>
    /\ tlog[1] = <<"acquire", "fetch", "parse", "release">>
    /\ Cardinality(Holders) = parallelism

\* C7: if the fetch or the parse of any single term raises, gather_scrapers
\* raises that exception to its caller and delivers no partial result
\* list, even when every other term succeeds.
C7_OneFailureFailsTheBatch ==
    /\ gpc = "returned" => ~SomeFailed
    /\ gpc = "raised" =>
          /\ gResult = <<>>
          /\ \E i \in Tasks : tpc[i] = "failed" /\ gExc = texc[i]
    /\ (\E k \in DOMAIN notified : tpc[notified[k]] = "failed") => gpc = "raised"

C7_Witness ==
    /\ Len(terms) = 3
    /\ AllNotified
    /\ tpc = <<"done", "failed", "done">>
    /\ gpc = "raised"
    /\ gExc = <<"parse_raised", 2>>
    /\ gResult = <<>>

(***************************************************************************)
(* Claims checked under SpecGatherFair                                     *)
(***************************************************************************)
Finished(i) == tpc[i] \in {"done", "failed"}
Acquired(i) == \E k \in DOMAIN tlog[i] : tlog[i][k] = "acquire"
Released(i) == tlog[i] # <<>> /\ tlog[i][Len(tlog[i])] = "release"

\* every permit is either free or held by a task inside `async with sem`,
\* and a task that ended, with a result or an exception, released its own
PermitsConserved ==
    gpc # "idle" =>
        /\ semValue + Cardinality(Holders) = parallelism
        /\ \A i \in Tasks : Finished(i) => Released(i)

\* C28: a task releases its semaphore permit on every exit, also when its
\* fetch or parse raises; so with parallelism >= 1 and terminating fetches
\* every term's task eventually acquires the semaphore and runs, and the
\* gather call eventually completes.
C28_PermitReleasedAndAllRun ==
    /\ []PermitsConserved
    /\ <>[](/\ gpc \in {"returned", "raised"}
            /\ \A i \in Tasks : Finished(i) /\ Acquired(i))

C28_Witness ==
    /\ Len(terms) = 3
    /\ parallelism = 1
    /\ gpc = "raised"
    /\ tpc = <<"failed", "failed", "done">>
    /\ tlog[1] = <<"acquire", "fetch_raised", "release">>
    /\ tlog[2] = <<"wait", "acquire", "fetch", "parse_raised", "release">>
    /\ tlog[3] = <<"wait", "acquire", "fetch", "parse", "release">>
    /\ semValue = 1

\* C29: when one task raises, the other tasks are not cancelled: once the
\* gather call has failed, every task still running or still waiting on
\* the semaphore goes on to acquire it and to end its fetch and parse.
C29_OthersNotCancelled ==
    [](gpc = "raised" => <>(\A i \in Tasks : Finished(i) /\ Acquired(i) /\ Released(i)))

C29_Witness ==
    /\ Len(terms) = 3
    /\ parallelism = 1
    /\ gpc = "raised"
    /\ notified = <<1>>
    /\ tpc = <<"failed", "fetching", "waiting">>
    /\ tlog[2] = <<"wait", "acquire">>

(***************************************************************************)
(* Token-list parsers: one application of a parser to a text               *)
(***************************************************************************)
Words == {"btc", "eth", "the"}
Texts == UNION {[1..n -> Words \cup {CaptchaMarker}] : n \in 0..MaxLen}
Parsers == {"google", "duckduckgo", "wikipedia", "news_rss", "text"}

\* google_web._parse_html(html, top_n)
ParseGoogle ==
    /\ ppc = "ready"
    /\ pfn = "google"
    /\ pout' = GoogleParseHtml(ptext, ptop)
    /\ ppc' = "done"
    /\ UNCHANGED <<pfn, ptext, ptop, ctxVars, orchVars, httpVars, browserVars, gatherVars, utilVars,
                   ctxHeaders>>

\* duckduckgo_web._parse_html(html, top_n)
ParseDuckDuckGo ==
    /\ ppc = "ready"
    /\ pfn = "duckduckgo"
    /\ pout' = DuckDuckGoParseHtml(ptext, ptop)
    /\ ppc' = "done"
    /\ UNCHANGED <<pfn, ptext, ptop, ctxVars, orchVars, httpVars, browserVars, gatherVars, utilVars,
                   ctxHeaders>>

\* wikipedia._parse_html(raw, term, ctx, top_n)
ParseWikipedia ==
    /\ ppc = "ready"
    /\ pfn = "wikipedia"
    /\ pout' = WikipediaParseHtml(ptext, ptop)
    /\ ppc' = "done"
    /\ UNCHANGED <<pfn, ptext, ptop, ctxVars, orchVars, httpVars, browserVars, gatherVars, utilVars,
                   ctxHeaders>>

\* news._parse_rss(xml, top_n)
ParseNewsRss ==
    /\ ppc = "ready"
    /\ pfn = "news_rss"
    /\ pout' = FallbackParse(ptext, ptop)
    /\ ppc' = "done"
    /\ UNCHANGED <<pfn, ptext, ptop, ctxVars, orchVars, httpVars, browserVars, gatherVars, utilVars,
                   ctxHeaders>>

\* utils.text.most_common(tokenise(text), n)
ParseText ==
    /\ ppc = "ready"
    /\ pfn = "text"
    /\ pout' = TextMostCommon(ptext, ptop)
    /\ ppc' = "done"
    /\ UNCHANGED <<pfn, ptext, ptop, ctxVars, orchVars, httpVars, browserVars, gatherVars, utilVars,
                   ctxHeaders>>

InitParse ==
    /\ call = "_parse_html"
    /\ ctxGiven = TRUE
    /\ use_browser = FALSE
    /\ browser_type = "selenium"
    /\ retries = DefaultRetries
    /\ selAvailable = FALSE
    /\ pwAvailable = FALSE
    /\ userAgents = {}
    /\ ctxHeaders = {}
    /\ pc = "start"
    /\ calls = <<>>
    /\ outs = <<>>
    /\ warned = FALSE
    /\ result = NoResult
    /\ hstate = "idle"
    /\ attempt = 0
    /\ httpLog = <<>>
    /\ sleeps = <<>>
    /\ hres = NoResult
    /\ reqHeaders = {}
    /\ sentUA = <<>>
    /\ rtype = "selenium"
    /\ bpc = "idle"
    /\ backend = "none"
    /\ handle = "none"
    /\ pending = NoExc
    /\ page = NoHtml
    /\ brLog = <<>>
    /\ bres = NoResult
    /\ GatherIdle
    /\ pfn \in Parsers
    /\ ptext \in Texts
    /\ ptop \in 0..MaxTopN
    /\ UtilIdle
    /\ ppc = "ready"
    /\ pout = <<>>

NextParse ==
    \/ ParseGoogle
    \/ ParseDuckDuckGo
    \/ ParseWikipedia
    \/ ParseNewsRss
    \/ ParseText

SpecParse == InitParse /\ [][NextParse]_vars

(***************************************************************************)
(* Claims about the parsers                                                *)
(***************************************************************************)
Distinct(seq) == \A i, j \in DOMAIN seq : i # j => seq[i] # seq[j]

\* C14: for every input and every top_n >= 0, top_n = 0 included, each
\* token-list parser returns at most top_n tokens, pairwise distinct.
C14_AtMostTopNDistinct ==
    ppc = "done" => Len(pout) <= ptop /\ Distinct(pout)

\* every token the parser counts, before the stop list is applied
AllTokens(fn, text) ==
    IF fn \in {"google", "duckduckgo"} THEN TokeniseAndBigrams(text) ELSE Tokenise(text)

NoStopwordIn(seq) == \A i \in DOMAIN seq : NotStopword(seq[i])

\* C15 as stated: no returned token is a stop word, except that when the
\* stop list leaves no token the top-N of the unfiltered tokens is
\* returned instead of an empty list.
C15_NoStopwordUnlessFallback ==
    ppc = "done" =>
        IF DropStopwords(AllTokens(pfn, ptext)) # <<>>
        THEN NoStopwordIn(pout)
        ELSE pout = MostCommon(AllTokens(pfn, ptext), ptop)

\* C15 amended: the Wikipedia and Google News RSS parsers return no stop
\* word unless the stop list leaves no token, and then return the top-N of
\* the unfiltered tokens; the Google and DuckDuckGo parsers and
\* utils.text.most_common never return a stop word and return the empty
\* list when the stop list leaves no token.
C15_StopwordsOnlyByFallback ==
    ppc = "done" =>
        IF pfn \in {"wikipedia", "news_rss"}
        THEN IF DropStopwords(Tokenise(ptext)) # <<>>
             THEN NoStopwordIn(pout)
             ELSE pout = MostCommon(Tokenise(ptext), ptop)
        ELSE /\ NoStopwordIn(pout)
             /\ DropStopwords(AllTokens(pfn, ptext)) = <<>> => pout = <<>>

C15_Witness ==
    /\ ppc = "done"
    /\ pfn = "wikipedia"
    /\ ptext = <<"the", "the">>
    /\ ptop = 2
    /\ pout = << <<"the">> >>

\* the first position in the text at which the words of token t stand
TextWords(text) == SelectSeq(text, IsWord)
OccursAt(text, t, i) ==
    /\ i + Len(t) - 1 <= Len(TextWords(text))
    /\ \A k \in 1..Len(t) : TextWords(text)[i + k - 1] = t[k]
TextPos(text, t) ==
    CHOOSE i \in 1..Len(TextWords(text)) :
        OccursAt(text, t, i) /\ \A j \in 1..(i - 1) : ~OccursAt(text, t, j)

\* C16 as stated: the list is ordered by descending count and tokens with
\* equal counts appear in the order of their first occurrence in the input.
C16_TiesByFirstOccurrenceInInput ==
    ppc = "done" =>
        \A i, j \in DOMAIN pout :
            i < j =>
                LET all == AllTokens(pfn, ptext)
                IN  \/ CountOf(all, pout[i]) > CountOf(all, pout[j])
                    \/ /\ CountOf(all, pout[i]) = CountOf(all, pout[j])
                       /\ TextPos(ptext, pout[i]) <= TextPos(ptext, pout[j])

\* C16 amended: the list is ordered by descending count; tokens with equal
\* counts appear in the order of their first occurrence in the token
\* sequence the parser counts, which holds every word in text order
\* followed by every bigram in text order, so that a word precedes any
\* bigram of equal count; each bigram is two adjacent words of the text.
C16_RankedByCountThenTokenOrder ==
    ppc = "done" =>
        LET all == AllTokens(pfn, ptext)
        IN  /\ \A i, j \in DOMAIN pout :
                  i < j =>
                      \/ CountOf(all, pout[i]) > CountOf(all, pout[j])
                      \/ /\ CountOf(all, pout[i]) = CountOf(all, pout[j])
                         /\ FirstAt(all, pout[i]) < FirstAt(all, pout[j])
            /\ \A i, j \in DOMAIN all :
                  (Len(all[i]) = 1 /\ Len(all[j]) = 2) => i < j
            /\ \A i \in DOMAIN pout :
                  /\ Len(pout[i]) \in {1, 2}
                  /\ \E k \in 1..Len(TextWords(ptext)) : OccursAt(ptext, pout[i], k)
                  /\ Len(pout[i]) = 2 => pfn \in {"google", "duckduckgo"}

C16_Witness ==
    /\ ppc = "done"
    /\ pfn = "google"
    /\ ptext = <<"btc", "eth", "btc">>
    /\ ptop = 3
    /\ pout = << <<"btc">>, <<"eth">>, <<"btc", "eth">> >>

\* C17: for the empty text or empty HTML the token extractor and every
\* per-source parser return the empty token list.
C17_EmptyInputGivesEmptyList ==
    (ppc = "done" /\ ptext = <<>>) => pout = <<>>

C17_Witness ==
    /\ ppc = "done"
    /\ pfn = "news_rss"
    /\ ptext = <<>>
    /\ ptop = 2
    /\ pout = <<>>


(***************************************************************************)
(* utils.output.to_json: a sequence of calls on one file                   *)
(***************************************************************************)
\* no scraper, fetcher, renderer or runner is active
CoreIdle(c) ==
    /\ call = c
    /\ ctxGiven = TRUE
    /\ use_browser = FALSE
    /\ browser_type = "selenium"
    /\ retries = DefaultRetries
    /\ selAvailable = FALSE
    /\ pwAvailable = FALSE
    /\ userAgents = {}
    /\ ctxHeaders = {}
    /\ pc = "start"
    /\ calls = <<>>
    /\ outs = <<>>
    /\ warned = FALSE
    /\ result = NoResult
    /\ hstate = "idle"
    /\ attempt = 0
    /\ httpLog = <<>>
    /\ sleeps = <<>>
    /\ hres = NoResult
    /\ reqHeaders = {}
    /\ sentUA = <<>>
    /\ rtype = "selenium"
    /\ bpc = "idle"
    /\ backend = "none"
    /\ handle = "none"
    /\ pending = NoExc
    /\ page = NoHtml
    /\ brLog = <<>>
    /\ bres = NoResult
    /\ GatherIdle
    /\ ParseIdle

\* the number of to_json calls of a run, and the longest list written
MaxWrites == 3
MaxJsonLen == 2

\* JSON values: a value that is not a list (a number, a string, an object),
\* or a list of values
JsonAtom(x) == [list |-> FALSE, atom |-> x, items |-> <<>>]
JsonList(vs) == [list |-> TRUE, atom |-> "", items |-> vs]
JsonAtoms == {JsonAtom("a"), JsonAtom("b")}
JsonData == JsonAtoms \cup {JsonList(vs) : vs \in UNION {[1..n -> JsonAtoms] : n \in 0..MaxJsonLen}}

\* json.dumps: the text of a value, as its tokens
RECURSIVE Dumps(_)
RECURSIVE DumpsItems(_, _)
DumpsItems(vs, i) == IF i > Len(vs) THEN <<>> ELSE Dumps(vs[i]) \o DumpsItems(vs, i + 1)
Dumps(v) == IF v.list THEN <<"[">> \o DumpsItems(v.items, 1) \o <<"]">> ELSE <<v.atom>>

\* json.loads: the value of a text, read from token i on
RECURSIVE LoadsValue(_, _)
RECURSIVE LoadsItems(_, _, _)
LoadsItems(text, i, acc) ==
    IF text[i] = "]" THEN [val |-> JsonList(acc), next |-> i + 1]
    ELSE LET r == LoadsValue(text, i) IN LoadsItems(text, r.next, Append(acc, r.val))
LoadsValue(text, i) ==
    IF text[i] = "[" THEN LoadsItems(text, i + 1, <<>>)
    ELSE [val |-> JsonAtom(text[i]), next |-> i + 1]
Loads(text) == LoadsValue(text, 1).val

\* a merge that always builds the two-element list [existing, data]
JsonMergeNested(existing, data) == JsonList(<<existing, data>>)

\* `if not isinstance(existing, list): existing = [existing]`, then
\* existing.append(data)
JsonMerge(existing, data) ==
    IF existing.list THEN JsonList(Append(existing.items, data))
    ELSE JsonList(<<existing, data>>)

\* to_json(data, file_path, append): read-merge-rewrite when append is set
\* and the file exists, else overwrite
ToJson ==
    /\ call = "to_json"
    /\ Len(jlog) < MaxWrites
    /\ \E data \in JsonData, append \in BOOLEAN :
         /\ jfile' = Dumps(IF append /\ jfile # <<>> THEN JsonMerge(Loads(jfile), data)
                                                     ELSE data)
         /\ jlog' = Append(jlog, [data |-> data, append |-> append])
    /\ UNCHANGED <<rcalls, rperiod, now, bucket, reset_at, rlock, rpc, rstarts,
                   ctxVars, orchVars, httpVars, browserVars, gatherVars, parseVars, ctxHeaders>>

InitJson ==
    /\ CoreIdle("to_json")
    /\ JsonIdle
    /\ RateIdle

NextJson == ToJson

SpecJson == InitJson /\ [][NextJson]_vars

\* the last call made without append, 0 when there is none
LastPlain ==
    LET ps == {i \in DOMAIN jlog : ~jlog[i].append}
    IN  IF ps = {} THEN 0 ELSE CHOOSE p \in ps : \A q \in ps : q <= p
\* the values appended since
AppendedSince(p) == [i \in 1..(Len(jlog) - p) |-> jlog[p + i].data]

\* C25 as stated: after to_json(a, f) and the appends b_1 .. b_k the file
\* holds the list [a, b_1, ..., b_k], for all JSON values a and b_i; after a
\* call without append it holds exactly the value written.
C25_FileIsListOfAllWrites ==
    LET p == LastPlain
    IN  p > 0 =>
          Loads(jfile) = IF p = Len(jlog) THEN jlog[p].data
                         ELSE JsonList(<<jlog[p].data>> \o AppendedSince(p))

\* C25 amended: after to_json(a, f) and k >= 1 appends b_1 .. b_k the file
\* holds [a, b_1, ..., b_k] when a is not a list, and the items of a
\* followed by b_1, ..., b_k when a is a list; after a call without append
\* it holds exactly the value written.
C25_ExistingListIsExtended ==
    LET p == LastPlain
    IN  p > 0 =>
          Loads(jfile) = IF p = Len(jlog) THEN jlog[p].data
                         ELSE IF jlog[p].data.list
                         THEN JsonList(jlog[p].data.items \o AppendedSince(p))
                         ELSE JsonList(<<jlog[p].data>> \o AppendedSince(p))

C25_Witness ==
    /\ Len(jlog) = 3
    /\ jlog[1] = [data |-> JsonList(<<JsonAtom("a")>>), append |-> FALSE]
    /\ jlog[2] = [data |-> JsonAtom("b"), append |-> TRUE]
    /\ jlog[3] = [data |-> JsonList(<<>>), append |-> TRUE]
    /\ jfile = <<"[", "a", "b", "[", "]", "]">>


(***************************************************************************)
(* utils.http.rate_limited: concurrent callers of one decorated coroutine  *)
(***************************************************************************)
\* the largest calls and period arguments, the number of concurrent
\* callers and the last instant of the clock
MaxRate == 2
MaxPeriod == 2
MaxCallers == 3
MaxTime == 4

Callers == DOMAIN rpc

\* time.monotonic() advances
Tick ==
    /\ call = "rate_limited"
    /\ now < MaxTime
    /\ now' = now + 1
    /\ UNCHANGED <<jfile, jlog, rcalls, rperiod, bucket, reset_at, rlock, rpc, rstarts,
                   ctxVars, orchVars, httpVars, browserVars, gatherVars, parseVars, ctxHeaders>>

\* the bucket and reset_at after `if now >= reset_at: bucket = calls;
\* reset_at = now + period`
Refilled == IF now >= reset_at THEN [bucket |-> rcalls, reset_at |-> now + rperiod]
                               ELSE [bucket |-> bucket, reset_at |-> reset_at]

\* caller i enters the wrapper and takes the lock: with a token left it
\* takes one, leaves the lock and starts the wrapped function; with none it
\* goes to sleep until reset_at, holding the lock
WrapperEnter(i) ==
    /\ call = "rate_limited"
    /\ rpc[i] = "idle"
    /\ rlock = 0
    /\ reset_at' = Refilled.reset_at
    /\ IF Refilled.bucket = 0
       THEN /\ bucket' = 0
            /\ rlock' = i
            /\ rpc' = [rpc EXCEPT ![i] = "sleeping"]
            /\ UNCHANGED rstarts
       ELSE /\ bucket' = Refilled.bucket - 1
            /\ rpc' = [rpc EXCEPT ![i] = "started"]
            /\ rstarts' = Append(rstarts, [at |-> now, slept |-> FALSE])
            /\ UNCHANGED rlock
    /\ UNCHANGED <<jfile, jlog, rcalls, rperiod, now,
                   ctxVars, orchVars, httpVars, browserVars, gatherVars, parseVars, ctxHeaders>>

\* asyncio.sleep(reset_at - now) is over: bucket = calls - 1, reset_at =
\* time.monotonic() + period, the lock is left and the function started
WrapperWake(i) ==
    /\ call = "rate_limited"
    /\ rpc[i] = "sleeping"
    /\ now >= reset_at
    /\ bucket' = rcalls - 1
    /\ reset_at' = now + rperiod
    /\ rlock' = 0
    /\ rpc' = [rpc EXCEPT ![i] = "started"]
    /\ rstarts' = Append(rstarts, [at |-> now, slept |-> TRUE])
    /\ UNCHANGED <<jfile, jlog, rcalls, rperiod, now,
                   ctxVars, orchVars, httpVars, browserVars, gatherVars, parseVars, ctxHeaders>>

\* the decorator was applied at time 0: bucket = calls, reset_at = period
InitRate ==
    /\ CoreIdle("rate_limited")
    /\ JsonIdle
    /\ rcalls \in 1..MaxRate
    /\ rperiod \in 1..MaxPeriod
    /\ now = 0
    /\ bucket = rcalls
    /\ reset_at = rperiod
    /\ rlock = 0
    /\ rpc = [i \in 1..MaxCallers |-> "idle"]
    /\ rstarts = <<>>

NextRate ==
    \/ Tick
    \/ \E i \in Callers : WrapperEnter(i)
    \/ \E i \in Callers : WrapperWake(i)

SpecRate == InitRate /\ [][NextRate]_vars

\* the invocations started in the interval [t, t + period)
StartedIn(t) == {k \in DOMAIN rstarts : t <= rstarts[k].at /\ rstarts[k].at < t + rperiod}

\* C26: for rate_limited(calls=c, period=p), c >= 1, at most c invocations
\* of the wrapped function are started in any time interval of length p,
\* under every interleaving of concurrent callers.
C26_AtMostCallsPerPeriod ==
    \A t \in 0..MaxTime : Cardinality(StartedIn(t)) <= rcalls

====
